---------------------------- MODULE Spec2Model ----------------------------
(***************************************************************************)
(* A model of meshmagick's Mesh class (src/meshmagick/mesh.py): the vertex *)
(* and face arrays, the derived-property cache __internals__, and the      *)
(* public operations that read and mutate them.                            *)
(*                                                                         *)
(* Conventions.                                                            *)
(*  - Arrays are sequences; the Python index i is the TLA+ index i + 1.    *)
(*    Vertex indices stored in faces and face indices stored in the cache  *)
(*    keep their Python (0-based) values.                                  *)
(*  - Vertex coordinates are floats holding integral values; every derived *)
(*    float is an exact rational <<num, den>> in lowest terms, den > 0.    *)
(*    <<0, 0>> is NaN (numpy's 0/0).  A Euclidean norm is computed exactly *)
(*    and is only defined when it is rational: the meshes of this model    *)
(*    have their faces in axis-aligned planes, which keeps it so.          *)
(*  - rotate multiplies the vertices by a matrix of floats: math.cos of    *)
(*    a quarter turn is 6.1e-17, not 0, and the coordinates it leaves are  *)
(*    within 1e-15 of the exact values held here, as is every quantity     *)
(*    that depends continuously on them.  Two results do not: the normal   *)
(*    of a face whose cross product is the zero vector on three distinct   *)
(*    vertices (numpy divides one rounding residue by another), and the    *)
(*    test hs[2] < 0 of heal_normals on a sum that is exactly zero.  The   *)
(*    quarter turns are therefore applied where neither occurs.  In       *)
(*    NextTriangle and NextRigid, which read the face properties and the   *)
(*    connectivity after them, the meshes lie in the plane z = 0 and a     *)
(*    face of zero area has it by a repeated vertex, so that the cross     *)
(*    product is zero in floats too.  In NextBounds, which heals and       *)
(*    merges after them, the turns are about Oz and the vertices lie at    *)
(*    the origin or on the diagonals |x| = |y|, where the product rounds   *)
(*    to the exact value (see InitBounds).                                 *)
(*  - A Python set is kept as the set of its members, except the sets of   *)
(*    f_f, which heal_normals iterates over and removes from: each is the  *)
(*    sequence of its members in the order of iteration.                   *)
(*  - A mesh value is a record [vertices, faces, internals, exc, ret]; exc *)
(*    is "none" or the name of the Python exception that ended the call,   *)
(*    ret the value the call returned.                                     *)
(*    internals is a function whose DOMAIN is the set of keys present in   *)
(*    the dict __internals__.                                              *)
(*  - A method is an operator from the mesh before the call to the mesh    *)
(*    after it.  Its steps are written as a composition, each step an      *)
(*    operator applied to the result of the one before.                    *)
(***************************************************************************)
EXTENDS Integers, Sequences, FiniteSets, TLC

VARIABLES
    vertices,   \* self._vertices
    faces,      \* self._faces
    internals,  \* self.__internals__
    before,     \* the three fields above as the last call found them
    last,       \* the last call made on the mesh: [op, arg]
    ret,        \* what it returned, under the name of the call
    exc,        \* "none", or the exception that ended it
    nops        \* the number of calls made so far

vars == <<vertices, faces, internals, before, last, ret, exc, nops>>

-----------------------------------------------------------------------------
(* Bounds of the model.                                                    *)

\* Longest sequence of operations applied to one mesh.
MaxOps == 3

-----------------------------------------------------------------------------
(* Exact arithmetic standing for numpy's float arithmetic.                 *)

Abs(x) == IF x < 0 THEN -x ELSE x

RECURSIVE GCD(_, _)
GCD(a, b) == IF b = 0 THEN a ELSE GCD(b, a % b)

NaN == <<0, 0>>

IsNaN(q) == q[2] = 0

\* The rational n/d in lowest terms; 0/0 is NaN.
Frac(n, d) ==
    IF d = 0 THEN NaN
    ELSE LET g == GCD(Abs(n), Abs(d))
             s == IF d < 0 THEN -1 ELSE 1
         IN  <<(s * n) \div g, (s * d) \div g>>

FromInt(n) == <<n, 1>>

QAdd(a, b) ==
    IF IsNaN(a) \/ IsNaN(b) THEN NaN
    ELSE Frac(a[1] * b[2] + b[1] * a[2], a[2] * b[2])

QSub(a, b) ==
    IF IsNaN(a) \/ IsNaN(b) THEN NaN
    ELSE Frac(a[1] * b[2] - b[1] * a[2], a[2] * b[2])

QMul(a, b) ==
    IF IsNaN(a) \/ IsNaN(b) THEN NaN
    ELSE Frac(a[1] * b[1], a[2] * b[2])

\* Every division of the modelled code divides a quantity by its own norm
\* or by a sum of norms that is zero only when the numerator is: x/0 occurs
\* only as 0/0.
QDiv(a, b) ==
    IF IsNaN(a) \/ IsNaN(b) \/ b[1] = 0 THEN NaN
    ELSE Frac(a[1] * b[2], a[2] * b[1])

\* a < b; false when either is NaN, as every float comparison with NaN.
QLt(a, b) == ~IsNaN(a) /\ ~IsNaN(b) /\ a[1] * b[2] < b[1] * a[2]

\* numpy's max of two floats: NaN propagates.
QMax(a, b) ==
    IF IsNaN(a) \/ IsNaN(b) THEN NaN ELSE IF QLt(a, b) THEN b ELSE a

RECURSIVE QSum(_)
QSum(s) == IF s = <<>> THEN FromInt(0) ELSE QAdd(Head(s), QSum(Tail(s)))

\* Integer 3-vectors (vertex coordinates and their differences).
VAdd(a, b) == <<a[1] + b[1], a[2] + b[2], a[3] + b[3]>>

VSub(a, b) == <<a[1] - b[1], a[2] - b[2], a[3] - b[3]>>

Cross(a, b) ==
    <<a[2] * b[3] - a[3] * b[2],
      a[3] * b[1] - a[1] * b[3],
      a[1] * b[2] - a[2] * b[1]>>

Dot(a, b) == a[1] * b[1] + a[2] * b[2] + a[3] * b[3]

\* np.linalg.norm of an integer vector, defined when it is an integer.
VNorm(a) ==
    CHOOSE r \in 0..(Abs(a[1]) + Abs(a[2]) + Abs(a[3])) : r * r = Dot(a, a)

\* Rational 3-vectors (normals, centers, integrals).
QVec(a) == <<FromInt(a[1]), FromInt(a[2]), FromInt(a[3])>>

QVAdd(a, b) == <<QAdd(a[1], b[1]), QAdd(a[2], b[2]), QAdd(a[3], b[3])>>

QVSub(a, b) == <<QSub(a[1], b[1]), QSub(a[2], b[2]), QSub(a[3], b[3])>>

QVScale(k, a) == <<QMul(k, a[1]), QMul(k, a[2]), QMul(k, a[3])>>

QVDiv(a, k) == <<QDiv(a[1], k), QDiv(a[2], k), QDiv(a[3], k)>>

QVDot(a, b) == QAdd(QAdd(QMul(a[1], b[1]), QMul(a[2], b[2])), QMul(a[3], b[3]))

QZero3 == <<FromInt(0), FromInt(0), FromInt(0)>>

-----------------------------------------------------------------------------
(* Helpers on arrays and on the dict __internals__.                        *)

\* Python's v[i] on a sequence holding a numpy array.
At(s, i) == s[i + 1]

Range(s) == {s[i] : i \in DOMAIN s}

\* The elements of a finite set of integers in ascending order.
RECURSIVE SortedSeq(_)
SortedSeq(S) ==
    IF S = {} THEN <<>>
    ELSE LET x == CHOOSE y \in S : \A z \in S : y <= z
         IN  <<x>> \o SortedSeq(S \ {x})

\* dict.update / d[k] = v
Put(c, k, v) == [x \in (DOMAIN c) \cup {k} |-> IF x = k THEN v ELSE c[x]]

\* del d[k] for every k in ks
Del(c, ks) == [x \in (DOMAIN c) \ ks |-> c[x]]

EmptyDict == [x \in {} |-> 0]

\* A freshly constructed Mesh (lines 50-58): the cache is empty.  ret holds
\* the value returned by the call in progress.
Mesh(v, f) ==
    [vertices |-> v, faces |-> f, internals |-> EmptyDict, exc |-> "none",
     ret |-> "None"]

Raise(m, e) == [m EXCEPT !.exc = e]

WithInternals(m, c) == [m EXCEPT !.internals = c]

nb_vertices(m) == Len(m.vertices)

nb_faces(m) == Len(m.faces)


-----------------------------------------------------------------------------
(* Face classification.                                                    *)

_triangles_quadrangles(m) ==
    LET ids == 0..(nb_faces(m) - 1)
        triangle_mask == {i \in ids : At(m.faces, i)[1] = At(m.faces, i)[4]}
    IN  WithInternals(m,
            Put(Put(m.internals, "triangles_ids", SortedSeq(triangle_mask)),
                "quadrangles_ids", SortedSeq(ids \ triangle_mask)))

\* return v
Return(m, v) == [m EXCEPT !.ret = v]

\* return self.__internals__[key], unless the call already ended
ReturnKey(m, key) ==
    IF m.exc # "none" THEN m ELSE Return(m, m.internals[key])

\* return len(self.__internals__[key])
ReturnLen(m, key) ==
    IF m.exc # "none" THEN m ELSE Return(m, Len(m.internals[key]))

\* if test_key not in self.__internals__: compute()
Ensure(m, test_key, compute(_)) ==
    IF test_key \notin DOMAIN m.internals THEN compute(m) ELSE m

\* A triangles_ids that classifies the faces at every read.
triangles_ids_recomputed(m) == ReturnKey(_triangles_quadrangles(m), "triangles_ids")

\* The getters test 'triangles_ids' whichever list they return.
triangles_ids(m) ==
    ReturnKey(Ensure(m, "triangles_ids", _triangles_quadrangles), "triangles_ids")

nb_triangles(m) ==
    ReturnLen(Ensure(m, "triangles_ids", _triangles_quadrangles), "triangles_ids")

quadrangles_ids(m) ==
    ReturnKey(Ensure(m, "triangles_ids", _triangles_quadrangles), "quadrangles_ids")

nb_quadrangles(m) ==
    ReturnLen(Ensure(m, "triangles_ids", _triangles_quadrangles), "quadrangles_ids")

\* numpy's a[ids] raises IndexError when an index is not below len(a).
InBounds(ids, n) == \A k \in DOMAIN ids : ids[k] < n

\* numpy broadcasts two arrays along an axis where they have the same
\* length or one of them has length 1, to the length of the other; row i
\* of the array a is then its only row if it has one row, row i otherwise.
Broadcastable(k, n) == k = n \/ k = 1 \/ n = 1

BroadcastLen(k, n) == IF k = 1 THEN n ELSE k

BroadcastRow(a, i) == IF Len(a) = 1 THEN a[1] ELSE a[i]

\* Every vertex index of the faces fs is below nv.
IndicesInBounds(fs, nv) ==
    \A i \in DOMAIN fs : \A j \in DOMAIN fs[i] : fs[i][j] \in 0..(nv - 1)

\* self._vertices[...] finds its vertices for the faces the id lists name:
\* the first three of a face read as a triangle, the four of a face read
\* as a quadrangle.
ListedInBounds(m) ==
    /\ \A k \in DOMAIN m.internals["triangles_ids"] :
           InBounds(SubSeq(At(m.faces, m.internals["triangles_ids"][k]), 1, 3),
                    nb_vertices(m))
    /\ \A k \in DOMAIN m.internals["quadrangles_ids"] :
           InBounds(At(m.faces, m.internals["quadrangles_ids"][k]), nb_vertices(m))

-----------------------------------------------------------------------------
(* Face geometry: areas, normals, centers, radiuses.                       *)

\* The vertex in slot j (0-based) of face f.
FV(v, f, j) == At(v, f[j + 1])

\* Lines 306-311: one triangle's normal, area and center.
TriangleProperties(v, f) ==
    LET triangles_normals == Cross(VSub(FV(v, f, 1), FV(v, f, 0)),
                                   VSub(FV(v, f, 2), FV(v, f, 0)))
        triangles_areas == VNorm(triangles_normals)
    IN  [area   |-> Frac(triangles_areas, 2),
         normal |-> QVDiv(QVec(triangles_normals), FromInt(triangles_areas)),
         center |-> QVDiv(QVec(VAdd(VAdd(FV(v, f, 0), FV(v, f, 1)), FV(v, f, 2))),
                          FromInt(3))]

\* Lines 318-332: one quadrangle's normal, area and center.
QuadrangleProperties(v, f) ==
    LET quads_normals == Cross(VSub(FV(v, f, 2), FV(v, f, 0)),
                               VSub(FV(v, f, 3), FV(v, f, 1)))
        a1 == Frac(VNorm(Cross(VSub(FV(v, f, 1), FV(v, f, 0)),
                               VSub(FV(v, f, 2), FV(v, f, 0)))), 2)
        a2 == Frac(VNorm(Cross(VSub(FV(v, f, 3), FV(v, f, 0)),
                               VSub(FV(v, f, 2), FV(v, f, 0)))), 2)
        c1 == QVDiv(QVec(VAdd(VAdd(FV(v, f, 0), FV(v, f, 1)), FV(v, f, 2))),
                    FromInt(3))
        c2 == QVDiv(QVec(VAdd(VAdd(FV(v, f, 2), FV(v, f, 3)), FV(v, f, 0))),
                    FromInt(3))
    IN  [area   |-> QAdd(a1, a2),
         normal |-> QVDiv(QVec(quads_normals), FromInt(VNorm(quads_normals))),
         center |-> QVDiv(QVAdd(QVScale(a1, c1), QVScale(a2, c2)), QAdd(a1, a2))]

\* A face that neither id list names keeps the zeros of np.zeros.
ZeroProperties == [area |-> FromInt(0), normal |-> QZero3, center |-> QZero3]

\* The properties of face i under the id lists of the cache; the
\* quadrangles are assigned after the triangles.
FaceProperties(m, i) ==
    IF i \in Range(m.internals["quadrangles_ids"])
      THEN QuadrangleProperties(m.vertices, At(m.faces, i))
    ELSE IF i \in Range(m.internals["triangles_ids"])
      THEN TriangleProperties(m.vertices, At(m.faces, i))
    ELSE ZeroProperties

\* self.__internals__.update(faces_properties)
UpdateFacesProperties(m, props) ==
    WithInternals(m,
        Put(Put(Put(m.internals,
            "faces_areas", [i \in DOMAIN props |-> props[i].area]),
            "faces_normals", [i \in DOMAIN props |-> props[i].normal]),
            "faces_centers", [i \in DOMAIN props |-> props[i].center]))

\* Lines 297-338, once self.triangles_ids has been read: an id beyond
\* the faces (lines 304, 315) or a vertex index beyond the vertices
\* (lines 306, 318) raises IndexError.
FacesPropertiesFromIds(m) ==
    IF \/ ~InBounds(m.internals["triangles_ids"], nb_faces(m))
       \/ ~InBounds(m.internals["quadrangles_ids"], nb_faces(m))
    THEN Raise(m, "IndexError")
    ELSE IF ~ListedInBounds(m) THEN Raise(m, "IndexError")
    ELSE UpdateFacesProperties(m, [i \in 1..nb_faces(m) |-> FaceProperties(m, i - 1)])

_faces_properties(m) ==
    FacesPropertiesFromIds(Ensure(m, "triangles_ids", _triangles_quadrangles))

has_surface_integrals(m) == "surface_integrals" \in DOMAIN m.internals

_has_faces_properties(m) == "faces_areas" \in DOMAIN m.internals

_remove_surface_integrals(m) ==
    IF "surface_integrals" \in DOMAIN m.internals
    THEN WithInternals(m, Del(m.internals, {"surface_integrals"}))
    ELSE m

\* Lines 346-349, then lines 350-351.
RemoveGeometryKeys(m) ==
    IF _has_faces_properties(m)
    THEN WithInternals(m,
            Del(m.internals, {"faces_areas", "faces_centers", "faces_normals"}))
    ELSE m

_remove_faces_properties(m) == _remove_surface_integrals(RemoveGeometryKeys(m))

\* if self._has_faces_properties(): self._remove_faces_properties()
IfHasRemoveFacesProperties(m) ==
    IF _has_faces_properties(m) THEN _remove_faces_properties(m) ELSE m

\* if self.has_surface_integrals(): self._remove_surface_integrals()
IfHasRemoveSurfaceIntegrals(m) ==
    IF has_surface_integrals(m) THEN _remove_surface_integrals(m) ELSE m

\* A getter: compute when key is absent, return the stored value.
Getter(m, key, compute(_)) == ReturnKey(Ensure(m, key, compute), key)

faces_areas(m) == Getter(m, "faces_areas", _faces_properties)

faces_centers(m) == Getter(m, "faces_centers", _faces_properties)

faces_normals(m) == Getter(m, "faces_normals", _faces_properties)

\* Squared distance between a rational point and a vertex.
SqDist(c, p) == QVDot(QVSub(c, QVec(p)), QVSub(c, QVec(p)))

\* The radius of face f of center c.  A radius is represented by its
\* square (x -> x*x is one-to-one and increasing on the non-negative
\* floats, so equality and max carry over).
FaceRadius(v, f, c) ==
    QMax(QMax(SqDist(c, FV(v, f, 0)), SqDist(c, FV(v, f, 1))),
         QMax(SqDist(c, FV(v, f, 2)), SqDist(c, FV(v, f, 3))))

\* Lines 409-424, m being the mesh after the read of self.faces_centers.
RadiusesFromCenters(m) ==
    IF m.exc # "none" THEN m
    ELSE IF ~Broadcastable(Len(m.ret), nb_faces(m)) THEN Raise(m, "ValueError")
    ELSE WithInternals(m,
            Put(m.internals, "faces_radiuses",
                [i \in 1..BroadcastLen(Len(m.ret), nb_faces(m)) |->
                    FaceRadius(m.vertices, BroadcastRow(m.faces, i),
                               BroadcastRow(m.ret, i))]))

\* Line 409 takes the vertices of every face before the centers are
\* read.
_compute_radiuses(m) ==
    IF ~IndicesInBounds(m.faces, nb_vertices(m)) THEN Raise(m, "IndexError")
    ELSE RadiusesFromCenters(faces_centers(m))

faces_radiuses(m) == Getter(m, "faces_radiuses", _compute_radiuses)

-----------------------------------------------------------------------------
(* Surface integrals and volume.  Of the 15 rows of surface_integrals the  *)
(* model keeps rows 0..2 (s_int[0:3], the first moments), the ones the     *)
(* volume is computed from; a face's entry is the 3-vector of its column.  *)

\* s_int[0:3] = delta * f1 / 6 for the triangle (point_0, point_1, point_2).
_compute_triangles_integrals(point_0, point_1, point_2) ==
    LET f1 == VAdd(VAdd(point_0, point_1), point_2)
        e1 == VSub(point_1, point_0)
        e2 == VSub(point_2, point_0)
        delta == VNorm(Cross(e1, e2))
    IN  <<Frac(delta * f1[1], 6), Frac(delta * f1[2], 6), Frac(delta * f1[3], 6)>>

\* Face integrals in which the second pass on a quadrangle is left out.
FaceIntegralsFirstPass(m, i) ==
    IF i \in Range(m.internals["quadrangles_ids"])
         \/ i \in Range(m.internals["triangles_ids"])
      THEN _compute_triangles_integrals(FV(m.vertices, At(m.faces, i), 0),
                                        FV(m.vertices, At(m.faces, i), 1),
                                        FV(m.vertices, At(m.faces, i), 2))
    ELSE QZero3

\* The column of face i: a quadrangle is the sum of the passes (0, 1, 2)
\* and (0, 2, 3); a list is used only when it is not empty.
FaceIntegrals(m, i) ==
    IF i \in Range(m.internals["quadrangles_ids"])
      THEN QVAdd(_compute_triangles_integrals(FV(m.vertices, At(m.faces, i), 0),
                                              FV(m.vertices, At(m.faces, i), 1),
                                              FV(m.vertices, At(m.faces, i), 2)),
                 _compute_triangles_integrals(FV(m.vertices, At(m.faces, i), 0),
                                              FV(m.vertices, At(m.faces, i), 2),
                                              FV(m.vertices, At(m.faces, i), 3)))
    ELSE IF i \in Range(m.internals["triangles_ids"])
      THEN _compute_triangles_integrals(FV(m.vertices, At(m.faces, i), 0),
                                        FV(m.vertices, At(m.faces, i), 1),
                                        FV(m.vertices, At(m.faces, i), 2))
    ELSE QZero3

\* Lines 1645-1667, once self.nb_triangles has been read: an id beyond
\* the faces or a vertex index beyond the vertices (lines 1651, 1661)
\* raises IndexError.
FacesIntegralsFromIds(m) ==
    IF \/ ~InBounds(m.internals["triangles_ids"], nb_faces(m))
       \/ ~InBounds(m.internals["quadrangles_ids"], nb_faces(m))
    THEN Raise(m, "IndexError")
    ELSE IF ~ListedInBounds(m) THEN Raise(m, "IndexError")
    ELSE WithInternals(m,
            Put(m.internals, "surface_integrals",
                [i \in 1..nb_faces(m) |-> FaceIntegrals(m, i - 1)]))

_compute_faces_integrals(m) ==
    FacesIntegralsFromIds(Ensure(m, "triangles_ids", _triangles_quadrangles))

get_surface_integrals(m) == Getter(m, "surface_integrals", _compute_faces_integrals)

\* (normals.T * sigma_0_2).sum() / 3
VolumeOf(normals, sigma_0_2) ==
    QDiv(QSum([i \in 1..BroadcastLen(Len(normals), Len(sigma_0_2)) |->
                 QVDot(BroadcastRow(normals, i), BroadcastRow(sigma_0_2, i))]),
         FromInt(3))

\* A call made only when the calls before it returned.
Then(m, Op(_)) == IF m.exc # "none" THEN m ELSE Op(m)

\* Lines 1697-1700, m being the mesh after the read of self.faces_normals.
VolumeFromNormals(m) ==
    IF m.exc # "none" THEN m
    ELSE IF ~Broadcastable(Len(m.ret), Len(m.internals["surface_integrals"]))
      THEN Raise(m, "ValueError")
    ELSE Return(m, VolumeOf(m.ret, m.internals["surface_integrals"]))

_compute_volume(m) ==
    VolumeFromNormals(
        Then(Ensure(m, "surface_integrals", _compute_faces_integrals), faces_normals))

volume(m) == _compute_volume(m)
-----------------------------------------------------------------------------
(* Connectivity and boundary loops.                                        *)
(* A Python set is iterated in the order of the slots of its hash table.   *)
(* The table of a set of non-negative ints (hash(i) = i) is a function     *)
(* from the slots 0..mask to the int a slot holds, -1 for none: a new set  *)
(* has 8 slots, an int goes to the first free slot of its probe            *)
(* sequence, and the table is rebuilt larger once 3/5 of it is used.  The  *)
(* dict boundary_edges is the sequence of its <<key, value>> items in      *)
(* insertion order, popitem() taking the last.                             *)

PyNewTable(size) == [i \in 0..(size - 1) |-> -1]

PyMask(table) == Cardinality(DOMAIN table) - 1

\* The ints of the table in the order a `for` loop or list() yields them.
PyIter(table) ==
    SelectSeq([k \in 1..(PyMask(table) + 1) |-> table[k - 1]],
              LAMBDA key : key # -1)

\* The slot a new key takes: slot i if it is free, else the first free one
\* of the nine that follow when they all lie in the table, else the search
\* goes on from slot (5 i + 1 + perturb) & mask, perturb shifted right by
\* five bits each time.
RECURSIVE PyProbe(_, _, _)
PyProbe(table, i, perturb) ==
    LET mask == PyMask(table)
        linear == IF i + 9 <= mask
                  THEN {j \in (i + 1)..(i + 9) : table[j] = -1} ELSE {}
    IN  IF table[i] = -1 THEN i
        ELSE IF linear # {} THEN CHOOSE j \in linear : \A l \in linear : j <= l
        ELSE PyProbe(table, (i * 5 + 1 + (perturb \div 32)) % (mask + 1),
                     perturb \div 32)

PyInsertClean(table, key) ==
    [table EXCEPT ![PyProbe(table, key % (PyMask(table) + 1), key)] = key]

RECURSIVE PyInsertAll(_, _, _)
PyInsertAll(table, keys, k) ==
    IF k > Len(keys) THEN table
    ELSE PyInsertAll(PyInsertClean(table, keys[k]), keys, k + 1)

\* The smallest table size, 8 doubled as often as needed, above minused.
RECURSIVE PyTableSize(_, _)
PyTableSize(size, minused) ==
    IF size > minused THEN size ELSE PyTableSize(2 * size, minused)

\* The keys go to a table of more than four slots per key, in the order of
\* their slots in the old one.
PyResize(table) ==
    PyInsertAll(PyNewTable(PyTableSize(8, 4 * Len(PyIter(table)))), PyIter(table), 1)

\* set.add(key)
PyAdd(table, key) ==
    IF \E i \in DOMAIN table : table[i] = key THEN table
    ELSE IF Len(PyIter(PyInsertClean(table, key))) * 5
                >= PyMask(PyInsertClean(table, key)) * 3
      THEN PyResize(PyInsertClean(table, key))
    ELSE PyInsertClean(table, key)

RECURSIVE PyAddAll(_, _, _)
PyAddAll(table, keys, k) ==
    IF k > Len(keys) THEN table
    ELSE PyAddAll(PyAdd(table, keys[k]), keys, k + 1)

\* The set that starts empty and has the keys added one after the other:
\* set(keys), or set() followed by an add() for each.
PySet(keys) == PyAddAll(PyNewTable(8), keys, 1)

\* s1 & s2: the keys of the smaller set (of s2 when both have the same
\* size) that the other holds, added to a new set in iteration order.
PyAnd(s1, s2) ==
    IF Len(PyIter(s2)) > Len(PyIter(s1))
    THEN PySet(SelectSeq(PyIter(s1), LAMBDA key : key \in Range(PyIter(s2))))
    ELSE PySet(SelectSeq(PyIter(s2), LAMBDA key : key \in Range(PyIter(s1))))

\* face[:3] for a triangle, face otherwise.
face_w(face) == IF face[1] = face[4] THEN SubSeq(face, 1, 3) ELSE face

\* v_v and v_f, lines 682-692: face_w[index - 1] is the cyclic predecessor.
Pred(fw, k) == IF k = 1 THEN fw[Len(fw)] ELSE fw[k - 1]

v_f_of(m) ==
    [iV \in 0..(nb_vertices(m) - 1) |->
        {iface \in 0..(nb_faces(m) - 1) : iV \in Range(face_w(At(m.faces, iface)))}]

\* What lines 691-692 add to v_v[ivertex] while the loop is at slot k of
\* the face fw: the vertex of the slot if ivertex is its predecessor, then
\* the predecessor if ivertex is the vertex of the slot.
VVAddsAt(fw, k, ivertex) ==
    (IF Pred(fw, k) = ivertex THEN <<fw[k]>> ELSE <<>>)
        \o (IF fw[k] = ivertex THEN <<Pred(fw, k)>> ELSE <<>>)

\* Everything lines 684-692 add to v_v[ivertex], in the order of the adds,
\* from slot k of face iface on.
RECURSIVE VVAdds(_, _, _, _)
VVAdds(fs, iface, k, ivertex) ==
    IF iface >= Len(fs) THEN <<>>
    ELSE IF k > Len(face_w(At(fs, iface))) THEN VVAdds(fs, iface + 1, 1, ivertex)
    ELSE VVAddsAt(face_w(At(fs, iface)), k, ivertex)
             \o VVAdds(fs, iface, k + 1, ivertex)

\* `for iadj_v in v_v[ivertex]`, line 700: the neighbours of ivertex in
\* the order of the set's table.
VVOrder(fs, ivertex) == PyIter(PySet(VVAdds(fs, 0, 1, ivertex)))

\* v_v as the cache holds it: the members of each set.
v_v_of(m) ==
    [iV \in 0..(nb_vertices(m) - 1) |-> Range(VVOrder(m.faces, iV))]

\* boundary_edges[key] = value on the ordered dict.
DictSet(d, key, value) ==
    IF \E k \in DOMAIN d : d[k][1] = key
    THEN [k \in DOMAIN d |-> IF d[k][1] = key THEN <<key, value>> ELSE d[k]]
    ELSE Append(d, <<key, value>>)

DictHas(d, key) == \E k \in DOMAIN d : d[k][1] = key

DictGet(d, key) == d[CHOOSE k \in DOMAIN d : d[k][1] = key][2]

\* dict.pop(key): the items without key.
DictPop(d, key) == SelectSeq(d, LAMBDA item : item[1] # key)

\* A recorded direction that takes origin and target in storage order
\* whatever the two positions are.
BoundaryEdgeByPosition(face, ivertex, iadj_v) ==
    LET boundary_face == face_w(face)
        ids == SortedSeq({j \in 0..(Len(boundary_face) - 1) :
                             At(boundary_face, j) = ivertex \/ At(boundary_face, j) = iadj_v})
    IN  [exc |-> "none", i_v_orig |-> At(boundary_face, ids[1]),
         i_v_target |-> At(boundary_face, ids[2])]

\* Lines 708-719: the directed edge recorded for a boundary edge.
BoundaryEdge(face, ivertex, iadj_v) ==
    LET boundary_face == face_w(face)
        ids == SortedSeq({j \in 0..(Len(boundary_face) - 1) :
                             At(boundary_face, j) = ivertex \/ At(boundary_face, j) = iadj_v})
    IN  IF Len(ids) < 2 THEN [exc |-> "IndexError"]
        ELSE IF Len(ids) > 2 THEN [exc |-> "ValueError"]
        ELSE IF ids[2] # ids[1] + 1
          THEN [exc |-> "none", i_v_orig |-> At(boundary_face, ids[1]),
                i_v_target |-> At(boundary_face, ids[2])]
          ELSE [exc |-> "none", i_v_target |-> At(boundary_face, ids[1]),
                i_v_orig |-> At(boundary_face, ids[2])]

\* One iteration of the inner loop, lines 700-721, on the accumulator
\* acc = [f_f, boundary_edges, exc], f_f[f] being the table of the set.
\* Lines 704-705 add each of the two faces to the set of the other.
FFStep(m, v_f, acc, ivertex, iadj_v) ==
    LET intersection == v_f[ivertex] \cap v_f[iadj_v]
    IN  IF Cardinality(intersection) = 2
        THEN [acc EXCEPT !.f_f =
                 [f \in DOMAIN acc.f_f |->
                     IF f \in intersection
                     THEN PyAdd(acc.f_f[f], CHOOSE g \in intersection : g # f)
                     ELSE acc.f_f[f]]]
        ELSE IF Cardinality(intersection) = 1
        THEN LET e == BoundaryEdge(At(m.faces, CHOOSE f \in intersection : TRUE),
                                   ivertex, iadj_v)
             IN  IF e.exc # "none" THEN [acc EXCEPT !.exc = e.exc]
                 ELSE [acc EXCEPT !.boundary_edges =
                          DictSet(acc.boundary_edges, e.i_v_orig, e.i_v_target)]
        ELSE [acc EXCEPT !.exc = "RuntimeError"]

\* The pairs (ivertex, iadj_v) in the order the two loops visit them.
RECURSIVE EdgeVisits(_, _, _)
EdgeVisits(fs, ivertex, nv) ==
    IF ivertex >= nv THEN <<>>
    ELSE [k \in 1..Len(VVOrder(fs, ivertex)) |-> <<ivertex, VVOrder(fs, ivertex)[k]>>]
         \o EdgeVisits(fs, ivertex + 1, nv)

RECURSIVE FFPass(_, _, _, _, _)
FFPass(m, v_f, visits, k, acc) ==
    IF k > Len(visits) \/ acc.exc # "none" THEN acc
    ELSE FFPass(m, v_f, visits, k + 1,
                FFStep(m, v_f, acc, visits[k][1], visits[k][2]))

\* Lines 734-744: follow the edges from i_v0 until none leaves it.
RECURSIVE Walk(_, _, _)
Walk(boundary_edges, boundary, i_v0) ==
    IF DictHas(boundary_edges, i_v0)
    THEN LET i_v1 == DictGet(boundary_edges, i_v0)
         IN  Walk(DictPop(boundary_edges, i_v0), Append(boundary, i_v1), i_v1)
    ELSE [boundary_edges |-> boundary_edges, boundary |-> boundary]

\* One iteration of the outer loop that keeps the chain it walked whether
\* or not the chain is closed.
LoopStepKeepingOpen(boundary_edges, boundaries) ==
    LET item == boundary_edges[Len(boundary_edges)]
        w == Walk(SubSeq(boundary_edges, 1, Len(boundary_edges) - 1),
                  <<item[1], item[2]>>, item[2])
    IN  [boundary_edges |-> w.boundary_edges, boundary |-> w.boundary,
         boundaries |-> Append(boundaries, w.boundary)]

\* Lines 727-744: one iteration of the outer loop on a non-empty dict;
\* popitem() takes the last item, and an open chain is dropped.
LoopStep(boundary_edges, boundaries) ==
    LET item == boundary_edges[Len(boundary_edges)]
        w == Walk(SubSeq(boundary_edges, 1, Len(boundary_edges) - 1),
                  <<item[1], item[2]>>, item[2])
    IN  [boundary_edges |-> w.boundary_edges, boundary |-> w.boundary,
         boundaries |-> IF w.boundary[1] # w.boundary[Len(w.boundary)]
                        THEN boundaries ELSE Append(boundaries, w.boundary)]

\* Lines 724-746: the loop runs until popitem() finds the dict empty.
RECURSIVE Boundaries(_, _)
Boundaries(boundary_edges, boundaries) ==
    IF boundary_edges = <<>> THEN boundaries
    ELSE Boundaries(LoopStep(boundary_edges, boundaries).boundary_edges,
                    LoopStep(boundary_edges, boundaries).boundaries)

\* f_f as the cache holds it: each set as the sequence of its members in
\* the order of its table, the order in which line 1363 of heal_normals
\* iterates over it.
FFIter(f_f) == [f \in DOMAIN f_f |-> PyIter(f_f[f])]

\* The members of each set of a cached f_f: what == compares.
FFMembers(f_f) == [f \in DOMAIN f_f |-> Range(f_f[f])]

\* A cache update that stores v_v and v_f before the pass over the edges
\* ends, so that they stay when it raises.
StoreConnectivityEarly(m, v_v, v_f, pass) ==
    IF pass.exc # "none"
    THEN Raise(WithInternals(m, Put(Put(m.internals, "v_v", v_v), "v_f", v_f)),
               pass.exc)
    ELSE WithInternals(m,
            Put(Put(Put(Put(m.internals, "v_v", v_v), "v_f", v_f),
                "f_f", FFIter(pass.f_f)),
                "boundaries", Boundaries(pass.boundary_edges, <<>>)))

\* Lines 748-754: the four results go into the cache, unless the pass
\* ended by an exception.
StoreConnectivity(m, v_v, v_f, pass) ==
    IF pass.exc # "none" THEN Raise(m, pass.exc)
    ELSE WithInternals(m,
            Put(Put(Put(Put(m.internals, "v_v", v_v), "v_f", v_f),
                "f_f", FFIter(pass.f_f)),
                "boundaries", Boundaries(pass.boundary_edges, <<>>)))

\* Lines 682-692 look every vertex of every face_w up in v_f and v_v,
\* whose keys are range(nv): a face that names no vertex of the array
\* ends the call by the KeyError of line 690.
_connectivity(m) ==
    IF \E i \in DOMAIN m.faces :
           ~(Range(face_w(m.faces[i])) \subseteq 0..(nb_vertices(m) - 1))
    THEN Raise(m, "KeyError")
    ELSE StoreConnectivity(m, v_v_of(m), v_f_of(m),
        FFPass(m, v_f_of(m), EdgeVisits(m.faces, 0, nb_vertices(m)), 1,
               [f_f |-> [f \in 0..(nb_faces(m) - 1) |-> PyNewTable(8)],
                boundary_edges |-> <<>>, exc |-> "none"]))

_remove_connectivity(m) ==
    IF "v_v" \in DOMAIN m.internals
    THEN WithInternals(m, Del(m.internals, {"v_v", "v_f", "f_f", "boundaries"}))
    ELSE m

vv(m) == Getter(m, "v_v", _connectivity)

vf(m) == Getter(m, "v_f", _connectivity)

ff(m) == Getter(m, "f_f", _connectivity)

boundaries(m) == Getter(m, "boundaries", _connectivity)

nb_boundaries(m) == ReturnLen(Ensure(m, "boundaries", _connectivity), "boundaries")

\* return len(self.__internals__['boundaries']) == 0
ReturnClosed(m) ==
    IF m.exc # "none" THEN m ELSE Return(m, Len(m.internals["boundaries"]) = 0)

is_mesh_closed(m) == ReturnClosed(Ensure(m, "boundaries", _connectivity))

-----------------------------------------------------------------------------
(* Setters and rigid transformations.                                      *)

\* vertices.setter, lines 272-277
set_vertices(m, value) ==
    [m EXCEPT !.vertices = value, !.internals = EmptyDict]

\* A faces setter that replaces the array and forgets to clear the cache.
set_faces_keeping_cache(m, value) == [m EXCEPT !.faces = value]

\* faces.setter, lines 279-284
set_faces(m, value) ==
    [m EXCEPT !.faces = value, !.internals = EmptyDict]

\* Angles are given in quarter turns about one coordinate axis, the
\* rotations whose exact matrix is integral.  math.cos and math.sin of a
\* multiple of pi/2 are 0, 1 or -1 to within 1.3e-16 (math.cos(pi/2) is
\* 6.1e-17): the values here are the exact ones.
Cos4(k) == CASE k % 4 = 0 -> 1 [] k % 4 = 2 -> -1 [] OTHER -> 0

Sin4(k) == CASE k % 4 = 1 -> 1 [] k % 4 = 3 -> -1 [] OTHER -> 0

Eye3 == <<<<1, 0, 0>>, <<0, 1, 0>>, <<0, 0, 1>>>>

\* np.dot(rot_matrix, p) for an integer point and for a rational one.
MatVec(R, p) == <<Dot(R[1], p), Dot(R[2], p), Dot(R[3], p)>>

QMatVec(R, p) == <<QVDot(QVec(R[1]), p), QVDot(QVec(R[2]), p), QVDot(QVec(R[3]), p)>>

\* Lines 1000-1021 (Rodrigues' formula).
RotMatrix(angles) ==
    LET theta == VNorm(angles)
        ctheta == Cos4(theta)
        stheta == Sin4(theta)
        nx == angles[1] \div theta
        ny == angles[2] \div theta
        nz == angles[3] \div theta
    IN  <<<<ctheta + (1 - ctheta) * nx * nx,
            (1 - ctheta) * nx * ny - stheta * nz,
            (1 - ctheta) * nx * nz + stheta * ny>>,
          <<(1 - ctheta) * nx * ny + stheta * nz,
            ctheta + (1 - ctheta) * ny * ny,
            (1 - ctheta) * ny * nz - stheta * nx>>,
          <<(1 - ctheta) * nx * nz - stheta * ny,
            (1 - ctheta) * ny * nz + stheta * nx,
            ctheta + (1 - ctheta) * nz * nz>>>>

\* self._vertices = np.transpose(np.dot(rot_matrix, self._vertices.T))
RotateVertices(m, rot_matrix) ==
    [m EXCEPT !.vertices = [i \in DOMAIN m.vertices |-> MatVec(rot_matrix, m.vertices[i])]]

\* Lines 1028-1033: the cached normals and centers turn with the vertices.
RotateFacesProperties(m, rot_matrix) ==
    IF _has_faces_properties(m)
    THEN WithInternals(m,
            Put(Put(m.internals, "faces_normals",
                    [i \in DOMAIN m.internals["faces_normals"] |->
                        QMatVec(rot_matrix, m.internals["faces_normals"][i])]),
                "faces_centers",
                [i \in DOMAIN m.internals["faces_centers"] |->
                    QMatVec(rot_matrix, m.internals["faces_centers"][i])]))
    ELSE m

rotate(m, angles) ==
    IF VNorm(angles) = 0 THEN Return(IfHasRemoveSurfaceIntegrals(m), Eye3)
    ELSE Return(IfHasRemoveSurfaceIntegrals(
                    RotateFacesProperties(
                        RotateVertices(IfHasRemoveSurfaceIntegrals(m), RotMatrix(angles)),
                        RotMatrix(angles))),
                RotMatrix(angles))

\* Lines 936-979: the rotation about one axis is rotate with the angle in
\* its component.
rotate_x(m, thetax) == rotate(m, <<thetax, 0, 0>>)

rotate_y(m, thetay) == rotate(m, <<0, thetay, 0>>)

rotate_z(m, thetaz) == rotate(m, <<0, 0, thetaz>>)

\* translate_x, translate_y, translate_z (lines 1040-1107): axis is the
\* column, 0, 1 or 2.
AddAt(p, axis, t) == [p EXCEPT ![axis + 1] = @ + t]

QAddAt(p, axis, t) == [p EXCEPT ![axis + 1] = QAdd(@, FromInt(t))]

\* vertices[:, axis] += t
TranslateVertices(m, axis, t) ==
    [m EXCEPT !.vertices = [i \in DOMAIN m.vertices |-> AddAt(m.vertices[i], axis, t)]]

\* centers[:, axis] += t, if the face properties are cached
TranslateCenters(m, axis, t) ==
    IF _has_faces_properties(m)
    THEN WithInternals(m,
            Put(m.internals, "faces_centers",
                [i \in DOMAIN m.internals["faces_centers"] |->
                    QAddAt(m.internals["faces_centers"][i], axis, t)]))
    ELSE m

translate_axis(m, axis, t) ==
    IfHasRemoveSurfaceIntegrals(TranslateCenters(TranslateVertices(m, axis, t), axis, t))

translate_x(m, tx) == translate_axis(m, 0, tx)

translate_y(m, ty) == translate_axis(m, 1, ty)

translate_z(m, tz) == translate_axis(m, 2, tz)

\* Lines 1125-1130, after the setter.
TranslateAllCenters(m, t) ==
    IF _has_faces_properties(m)
    THEN WithInternals(m,
            Put(m.internals, "faces_centers",
                [i \in DOMAIN m.internals["faces_centers"] |->
                    QVAdd(m.internals["faces_centers"][i], QVec(t))]))
    ELSE m

\* Lines 1117-1135: the new array goes through the vertices setter.
translate(m, t) ==
    IfHasRemoveSurfaceIntegrals(
        TranslateAllCenters(
            set_vertices(m, [i \in DOMAIN m.vertices |-> VAdd(m.vertices[i], t)]), t))

\* vertices[:, j] *= factors[j]
ScaleVertices(m, factors) ==
    [m EXCEPT !.vertices =
        [i \in DOMAIN m.vertices |->
            <<m.vertices[i][1] * factors[1],
              m.vertices[i][2] * factors[2],
              m.vertices[i][3] * factors[3]>>]]

\* A scaling that asserts 0 <= alpha, and so accepts the factor 0.
scale_columns_accepting_zero(m, alpha, factors) ==
    IF ~(0 <= alpha) THEN Raise(m, "AssertionError")
    ELSE IfHasRemoveFacesProperties(ScaleVertices(m, factors))

\* scale, scalex, scaley, scalez (lines 1137-1212): factors multiplies the
\* three columns.
scale_columns(m, alpha, factors) ==
    IF ~(0 < alpha) THEN Raise(m, "AssertionError")
    ELSE IfHasRemoveFacesProperties(ScaleVertices(m, factors))

scale(m, alpha) == scale_columns(m, alpha, <<alpha, alpha, alpha>>)

scalex(m, alpha) == scale_columns(m, alpha, <<alpha, 1, 1>>)

scaley(m, alpha) == scale_columns(m, alpha, <<1, alpha, 1>>)

scalez(m, alpha) == scale_columns(m, alpha, <<1, 1, alpha>>)

\* np.fliplr on one row, np.flipud on one face
Reverse(f) == [j \in DOMAIN f |-> f[Len(f) + 1 - j]]

QNeg(q) == QMul(FromInt(-1), q)

\* A flip that reverses the first three columns of every face and keeps
\* the fourth.
FlipFacesFirstThree(m) ==
    [m EXCEPT !.faces =
        [i \in DOMAIN m.faces |->
            <<m.faces[i][3], m.faces[i][2], m.faces[i][1], m.faces[i][4]>>]]

\* self._faces = np.fliplr(faces)
FlipFaces(m) ==
    [m EXCEPT !.faces = [i \in DOMAIN m.faces |-> Reverse(m.faces[i])]]

\* self.__internals__['faces_normals'] *= -1, if cached
NegateNormals(m) ==
    IF _has_faces_properties(m)
    THEN WithInternals(m,
            Put(m.internals, "faces_normals",
                [i \in DOMAIN m.internals["faces_normals"] |->
                    <<QNeg(m.internals["faces_normals"][i][1]),
                      QNeg(m.internals["faces_normals"][i][2]),
                      QNeg(m.internals["faces_normals"][i][3])>>]))
    ELSE m

flip_normals(m) == IfHasRemoveSurfaceIntegrals(NegateNormals(FlipFaces(m)))

-----------------------------------------------------------------------------
(* Compaction and repair operations.                                       *)

LexLt(a, b) ==
    \/ a[1] < b[1]
    \/ a[1] = b[1] /\ a[2] < b[2]
    \/ a[1] = b[1] /\ a[2] = b[2] /\ a[3] < b[3]

RECURSIVE LexSorted(_)
LexSorted(S) ==
    IF S = {} THEN <<>>
    ELSE LET x == CHOOSE y \in S : \A z \in S : y = z \/ LexLt(y, z)
         IN  <<x>> \o LexSorted(S \ {x})

\* meshmagick.tools.merge_duplicate_rows(arr, atol, return_index=True).
\* Integral coordinates lie within atol = 1e-8 of each other exactly when
\* they are equal.  Without duplicates the array comes back as it is with
\* the identity renumbering; otherwise the distinct rows come back in
\* lexicographic order and new_id[i] is the row holding vertex i.
merge_duplicate_rows(arr) ==
    LET uniq == LexSorted(Range(arr))
    IN  IF Cardinality(Range(arr)) = Len(arr)
        THEN [uniq |-> arr, new_id |-> [i \in DOMAIN arr |-> i - 1]]
        ELSE [uniq |-> uniq,
              new_id |-> [i \in DOMAIN arr |->
                            (CHOOSE k \in DOMAIN uniq : uniq[k] = arr[i]) - 1]]

\* A renumbering that leaves the faces their old vertex indices.
RenumberNot(fs, new_id) == fs

\* new_id[faces]
Renumber(fs, new_id) ==
    [i \in DOMAIN fs |-> [j \in DOMAIN fs[i] |-> At(new_id, fs[i][j])]]

\* Lines 1298-1314, r being what merge_duplicate_rows returned: the
\* vertices are replaced (line 1298) before the faces are renumbered, and
\* new_id[self._faces] raises IndexError when a face names a vertex that
\* new_id has no entry for.
ApplyMerge(m, r) ==
    IF ~IndicesInBounds(m.faces, Len(r.new_id))
    THEN Raise([m EXCEPT !.vertices = r.uniq], "IndexError")
    ELSE _remove_connectivity(
        [m EXCEPT !.vertices = r.uniq, !.faces = Renumber(m.faces, r.new_id)])

merge_duplicates(m) == ApplyMerge(m, merge_duplicate_rows(m.vertices))

\* Lines 1247-1248: the vertices of both meshes, and the faces of both, those
\* of mesh_to_add shifted by self.nb_vertices.
Concatenate(m, mesh_to_add) ==
    Mesh(m.vertices \o mesh_to_add.vertices,
         m.faces \o [i \in DOMAIN mesh_to_add.faces |->
                       [j \in DOMAIN mesh_to_add.faces[i] |->
                           mesh_to_add.faces[i][j] + nb_vertices(m)]])

\* The arrays of a mesh object that a call returns.
Arrays(m) == [vertices |-> m.vertices, faces |-> m.faces]

\* self + mesh_to_add: a new mesh, merged; self is left as it is.
__add__(m, mesh_to_add) ==
    IF merge_duplicates(Concatenate(m, mesh_to_add)).exc # "none"
    THEN Raise(m, merge_duplicates(Concatenate(m, mesh_to_add)).exc)
    ELSE Return(m, Arrays(merge_duplicates(Concatenate(m, mesh_to_add))))

\* vertices[used_v]: the entries of s whose Python index is in keep.
Compress(s, keep) == [k \in 1..Cardinality(keep) |-> At(s, SortedSeq(keep)[k])]

\* Lines 544-546, id_v: the vertices the selected faces use, ascending.
KeptVertices(m, ids) ==
    SortedSeq(UNION {Range(At(m.faces, ids[j])) : j \in DOMAIN ids})

\* Lines 550-551, new_id__v: a kept vertex gets its rank among the kept
\* ones, any other keeps its index.
NewIds(nv, id_v) ==
    [i \in 1..nv |->
        IF (i - 1) \in Range(id_v)
        THEN (CHOOSE k \in DOMAIN id_v : id_v[k] = i - 1) - 1
        ELSE i - 1]

\* Line 549: self._vertices[id_v]
ExtractedVertices(m, id_v) == [k \in DOMAIN id_v |-> At(m.vertices, id_v[k])]

\* Faces that keep the vertex indices of the source mesh.
ExtractedFacesOldIds(m, ids, new_id__v) ==
    [j \in DOMAIN ids |-> At(m.faces, ids[j])]

\* Lines 553-554: the selected faces, renumbered.
ExtractedFaces(m, ids, new_id__v) ==
    [j \in DOMAIN ids |->
        [s \in 1..4 |-> At(new_id__v, At(m.faces, ids[j])[s])]]

\* A return that hands out new_id__v next to the mesh.
ExtractResultNewIds(extracted_mesh, id_v, new_id__v, return_index) ==
    IF return_index
    THEN [mesh |-> extracted_mesh, index |-> new_id__v]
    ELSE [mesh |-> extracted_mesh]

\* Lines 561-564: the new mesh, with id_v next to it when return_index is
\* set.
ExtractResult(extracted_mesh, id_v, new_id__v, return_index) ==
    IF return_index
    THEN [mesh |-> extracted_mesh, index |-> id_v]
    ELSE [mesh |-> extracted_mesh]

\* Lines 549-564, id_v and new_id__v being those of lines 544-551.
ExtractFromKept(m, ids, id_v, new_id__v, return_index) ==
    Return(m,
        ExtractResult(
            Arrays(Mesh(ExtractedVertices(m, id_v),
                        ExtractedFaces(m, ids, new_id__v))),
            id_v, new_id__v, return_index))

\* A face index beyond the faces, or a vertex index beyond the vertices in
\* a selected face, ends the call at line 545.
extract_faces(m, ids, return_index) ==
    IF \/ ~InBounds(ids, nb_faces(m))
       \/ \E j \in DOMAIN ids : ~InBounds(At(m.faces, ids[j]), nb_vertices(m))
    THEN Raise(m, "IndexError")
    ELSE ExtractFromKept(m, ids, KeptVertices(m, ids),
                         NewIds(nb_vertices(m), KeptVertices(m, ids)),
                         return_index)

\* Lines 1451-1452, used_v as the set of the marked indices: marking a
\* vertex that is not there raises IndexError.
UsedVertices(m) ==
    IF ~IndicesInBounds(m.faces, nb_vertices(m)) THEN Raise(m, "IndexError")
    ELSE Return(m, UNION {Range(m.faces[i]) : i \in DOMAIN m.faces})

\* A removal of the unused vertices that leaves the faces with the old
\* numbers.
KeepVerticesOldNumbers(m, used_v) ==
    [m EXCEPT !.vertices = Compress(m.vertices, used_v), !.ret = "None"]

\* Lines 1455-1461: the used vertices are renumbered in their order.
KeepVertices(m, used_v) ==
    IF Cardinality(used_v) < nb_vertices(m)
    THEN [m EXCEPT
            !.faces = Renumber(m.faces,
                         [i \in 1..nb_vertices(m) |->
                             IF (i - 1) \in used_v
                             THEN Cardinality({u \in used_v : u < i - 1})
                             ELSE i - 1]),
            !.vertices = Compress(m.vertices, used_v),
            !.ret = "None"]
    ELSE [m EXCEPT !.ret = "None"]

\* Lines 1455-1473, m being the mesh after lines 1451-1452.
RemoveUnmarked(m) ==
    IF m.exc # "none" THEN m
    ELSE _remove_connectivity(KeepVertices(m, m.ret))

remove_unused_vertices(m) == RemoveUnmarked(UsedVertices(m))

\* np.roll(face, 1) on the rows that are not triangles, lines 1487-1497
RollQuad(f) == IF f[1] # f[4] THEN <<f[4], f[1], f[2], f[3]>> ELSE f

\* Two passes of np.roll instead of three.
RollFacesTwice(m) ==
    [m EXCEPT !.faces = [i \in DOMAIN m.faces |-> RollQuad(RollQuad(m.faces[i]))]]

\* Lines 1485-1500
RollFaces(m) ==
    [m EXCEPT !.faces = [i \in DOMAIN m.faces |-> RollQuad(RollQuad(RollQuad(m.faces[i])))]]

heal_triangles(m) == RollFaces(IfHasRemoveFacesProperties(m))

\* The default relative tolerance of remove_degenerated_faces, 1e-5.
rtol == Frac(1, 100000)

\* areas.mean() * float(rtol)
AreaThreshold(areas) == QMul(QDiv(QSum(areas), FromInt(Len(areas))), rtol)

\* Lines 1528-1543, m being the mesh after the read of self.faces_areas.
RemoveBelowThreshold(m) ==
    IF m.exc # "none" THEN m
    ELSE IF Len(m.ret) # nb_faces(m) THEN Raise(m, "IndexError")
    ELSE IfHasRemoveFacesProperties(
            [m EXCEPT !.ret = "None",
                      !.faces = Compress(m.faces,
                          {i \in 0..(nb_faces(m) - 1) :
                              ~QLt(At(m.ret, i), AreaThreshold(m.ret))})])

remove_degenerated_faces(m) == RemoveBelowThreshold(faces_areas(m))

\* Lines 1585-1592, quad being self.quadrangles_ids: the quadrangle keeps
\* (v0, v2, v3) in its row and (v0, v1, v2) is appended.
SplitQuadrangles(fs, quad) ==
    [i \in DOMAIN fs |->
        IF (i - 1) \in Range(quad)
        THEN <<fs[i][1], fs[i][3], fs[i][4], fs[i][1]>>
        ELSE fs[i]]
    \o [k \in DOMAIN quad |->
            <<At(fs, quad[k])[1], At(fs, quad[k])[2], At(fs, quad[k])[3],
              At(fs, quad[k])[1]>>]

\* Lines 1582-1603, m being the mesh after the read of self.quadrangles_ids.
TriangulateFromIds(m) ==
    IF ~InBounds(m.ret, nb_faces(m)) THEN Raise(m, "IndexError")
    ELSE [m EXCEPT !.faces = SplitQuadrangles(m.faces, m.ret),
                   !.internals = EmptyDict,
                   !.ret = SplitQuadrangles(m.faces, m.ret)]

triangulate_quadrangles(m) == TriangulateFromIds(quadrangles_ids(m))

\* A plane of meshmagick.geometry: the points p with p . normal = c, for a
\* unit normal.  v - 2 * (v . normal - c) * normal
MirrorPoint(p, plane) ==
    LET d == 2 * (Dot(p, plane.normal) - plane.c)
    IN  <<p[1] - d * plane.normal[1], p[2] - d * plane.normal[2],
          p[3] - d * plane.normal[3]>>

\* Lines 1614-1619
AppendMirrored(m, plane) ==
    [m EXCEPT
        !.vertices = m.vertices \o
            [i \in DOMAIN m.vertices |-> MirrorPoint(m.vertices[i], plane)],
        !.faces = m.faces \o
            [i \in DOMAIN m.faces |->
                Reverse([j \in DOMAIN m.faces[i] |-> m.faces[i][j] + nb_vertices(m)])]]

\* Line 1625, reached when merge_duplicates returned.
ClearInternals(m) ==
    IF m.exc # "none" THEN m ELSE WithInternals(m, EmptyDict)

symmetrize(m, plane) == ClearInternals(merge_duplicates(AppendMirrored(m, plane)))

\* Line 1637
MirrorVertices(m, plane) ==
    [m EXCEPT !.vertices = [i \in DOMAIN m.vertices |-> MirrorPoint(m.vertices[i], plane)]]

mirror(m, plane) == WithInternals(flip_normals(MirrorVertices(m, plane)), EmptyDict)

-----------------------------------------------------------------------------
(* Normal healing.                                                         *)
(* The flood fill works on self._faces and on the cached f_f themselves,   *)
(* not on copies: what it changed stays changed when the call ends, also   *)
(* when it ends by an exception.  Its state is the record                  *)
(* [faces, f_f, f_vis, stack, exc, marked, popped], f_vis being the set of  *)
(* visited faces; marked lists the faces in the order `f_vis[...] = True`   *)
(* ran for them and popped the faces in the order stack.pop() returned      *)
(* them.                                                                    *)

\* np.roll(a, -k)
RollLeft(a, k) == [j \in DOMAIN a |-> a[((j - 1 + k) % Len(a)) + 1]]

\* np.where(face == x)[0][0]
FirstPos(face, x) ==
    (CHOOSE j \in DOMAIN face : face[j] = x /\ \A i \in 1..(j - 1) : face[i] # x) - 1

\* Lines 1382-1390: whether adjface runs along the shared edge
\* (i_v1, i_v2) in the same direction as face.
SameDirection(face, adjface, type_face, type_adj, i_v1, i_v2) ==
    LET face_ref == RollLeft(SubSeq(face, 1, type_face), FirstPos(face, i_v1))
        adj_face_ref == RollLeft(SubSeq(adjface, 1, type_adj), FirstPos(adjface, i_v1))
    IN  IF face_ref[2] = i_v2
        THEN adj_face_ref[2] = i_v2
        ELSE adj_face_ref[Len(adj_face_ref)] = i_v2

\* One iteration of `for iadj_f in f_f[iface]`, lines 1363-1396.  Line
\* 1368 removes iface from the set of iadj_f, which leaves the other
\* members in the order they had.
Visit(st, iface, iadj_f, type_cell) ==
    IF iadj_f >= Len(st.faces) THEN [st EXCEPT !.exc = "IndexError"]
    ELSE IF iadj_f \in st.f_vis THEN st
    ELSE IF iface \notin Range(st.f_f[iadj_f])
      THEN [st EXCEPT !.f_vis = @ \cup {iadj_f}, !.marked = Append(@, iadj_f),
                      !.exc = "KeyError"]
    ELSE
      LET face == At(st.faces, iface)
          adjface == At(st.faces, iadj_f)
          common_vertices == PyIter(PyAnd(PySet(face), PySet(adjface)))
          st1 == [st EXCEPT !.f_vis = @ \cup {iadj_f},
                            !.marked = Append(@, iadj_f),
                            !.f_f[iadj_f] =
                                SelectSeq(@, LAMBDA f : f # iface)]
      IN  IF Len(common_vertices) # 2 THEN st1
          ELSE [st1 EXCEPT
                  !.faces[iadj_f + 1] =
                      IF SameDirection(face, adjface, type_cell[iface + 1],
                                       type_cell[iadj_f + 1],
                                       common_vertices[1], common_vertices[2])
                      THEN Reverse(@) ELSE @,
                  !.stack = Append(@, iadj_f)]

RECURSIVE Expand(_, _, _, _, _)
Expand(st, iface, adj, k, type_cell) ==
    IF k > Len(adj) \/ st.exc # "none" THEN st
    ELSE Expand(Visit(st, iface, adj[k], type_cell), iface, adj, k + 1, type_cell)

\* The loop `while 1`, lines 1350-1396; f_f[iface] of line 1363 raises
\* KeyError for a face the cached f_f has no key for.
RECURSIVE Flood(_, _)
Flood(st, type_cell) ==
    LET not_vis == (0..(Len(st.faces) - 1)) \ st.f_vis
        unvisited == CHOOSE i \in not_vis : \A j \in not_vis : i <= j
        iface == st.stack[Len(st.stack)]
    IN  IF st.exc # "none" THEN st
        ELSE IF st.stack = <<>>
          THEN IF not_vis = {} THEN st
               ELSE Flood([st EXCEPT !.stack = <<unvisited>>,
                                     !.f_vis = @ \cup {unvisited},
                                     !.marked = Append(@, unvisited)], type_cell)
        ELSE IF iface \notin DOMAIN st.f_f
          THEN [st EXCEPT !.stack = SubSeq(@, 1, Len(@) - 1),
                          !.popped = Append(@, iface), !.exc = "KeyError"]
        ELSE Flood(Expand([st EXCEPT !.stack = SubSeq(@, 1, Len(@) - 1),
                                     !.popped = Append(@, iface)], iface,
                          st.f_f[iface], 1, type_cell), type_cell)

\* hs[2] of line 1416
SanityZ(zmax, areas, normals, centers) ==
    QSum([i \in DOMAIN areas |->
            QMul(QMul(QSub(centers[i][3], FromInt(zmax)), areas[i]), normals[i][3])])

MaxZ(v) == CHOOSE z \in {v[i][3] : i \in DOMAIN v} : \A i \in DOMAIN v : v[i][3] <= z

\* Lines 1416-1427, m being the mesh after the three reads of lines
\* 1411-1413.
FlipIfInward(m) ==
    IF m.exc # "none" THEN m
    ELSE IF QLt(SanityZ(MaxZ(m.vertices), m.internals["faces_areas"],
                        m.internals["faces_normals"], m.internals["faces_centers"]),
                FromInt(0))
      THEN flip_normals(m)
    ELSE m

\* Lines 1408-1427: the outward check of a closed mesh.
OutwardCheck(m) ==
    IF Len(m.internals["boundaries"]) > 0 THEN m
    ELSE IF m.vertices = <<>> THEN Raise(m, "ValueError")
    ELSE FlipIfInward(Then(Then(faces_areas(m), faces_normals), faces_centers))

\* Lines 1342-1344
TypeCell(m) ==
    [i \in 1..nb_faces(m) |->
        IF (i - 1) \in Range(m.internals["triangles_ids"]) THEN 3 ELSE 4]

\* Line 1405 and what the loop did to the cached f_f.
AfterFlood(m, st) ==
    [m EXCEPT !.faces = st.faces, !.exc = st.exc, !.ret = "None",
              !.internals = Put(m.internals, "f_f", st.f_f)]

\* Lines 1346-1396: the flood fill from face 0, m being the mesh after the
\* read of self.triangles_ids.
FloodOf(m) ==
    Flood([faces |-> m.faces, f_f |-> m.internals["f_f"],
           f_vis |-> {0}, stack |-> <<0>>, exc |-> "none",
           marked |-> <<0>>, popped |-> <<>>], TypeCell(m))

\* Whether lines 1342-1347 pass without an exception.
FloodStarts(m) ==
    /\ m.exc = "none"
    /\ InBounds(m.internals["triangles_ids"], nb_faces(m))
    /\ nb_faces(m) > 0

\* Lines 1342-1405, m being the mesh after the read of self.triangles_ids.
FloodFromIds(m) ==
    IF m.exc # "none" THEN m
    ELSE IF ~FloodStarts(m) THEN Raise(m, "IndexError")
    ELSE AfterFlood(m, FloodOf(m))

\* Lines 1331-1344: the reads that precede the flood fill.
BeforeFlood(m) == Then(Then(Then(Then(vv(m), vf), ff), boundaries), triangles_ids)

\* Lines 1437-1440
HealReturn(m) ==
    IF m.exc # "none" THEN m ELSE Return(IfHasRemoveFacesProperties(m), "None")

heal_normals(m) ==
    HealReturn(
        Then(FloodFromIds(BeforeFlood(m)), OutwardCheck))

\* Lines 1558-1563: the four steps that come before heal_normals.
BeforeHealNormals(m) ==
    Then(Then(Then(remove_unused_vertices(IfHasRemoveFacesProperties(m)),
         remove_degenerated_faces), merge_duplicates), heal_triangles)

heal_mesh(m) == Then(BeforeHealNormals(m), heal_normals)

-----------------------------------------------------------------------------
(* The meshes and arguments of the model.                                  *)

\* A quadrangle and a triangle sharing an edge, in the plane z = 0.
QuadTri ==
    Mesh(<<<<0, 0, 0>>, <<1, 0, 0>>, <<1, 1, 0>>, <<0, 1, 0>>, <<2, 0, 0>>>>,
         <<<<0, 1, 2, 3>>, <<1, 4, 2, 1>>>>)

\* A triangle, a face of zero area on three aligned vertices, and a vertex
\* that no face uses.
Degenerate ==
    Mesh(<<<<0, 0, 1>>, <<1, 0, 1>>, <<0, 1, 1>>, <<2, 0, 1>>, <<3, 3, 1>>>>,
         <<<<0, 1, 2, 0>>, <<1, 3, 0, 1>>>>)

\* A triangle written with its repeated vertex in the first two slots, and
\* a well-formed one wound the other way; vertex 4 duplicates vertex 1.
MisEncoded ==
    Mesh(<<<<0, 0, 0>>, <<1, 0, 0>>, <<0, 1, 0>>, <<1, 1, 0>>, <<1, 0, 0>>>>,
         <<<<0, 0, 1, 2>>, <<4, 2, 3, 4>>>>)

InitMeshes == {QuadTri, Degenerate, MisEncoded}

ScaleFactors == {-1, 0, 2}

Translations == {1}

\* No rotation, and a quarter turn about Oz.
Angles == {<<0, 0, 0>>, <<0, 0, 1>>}

Planes == {[normal |-> <<1, 0, 0>>, c |-> 0]}

\* The angles given to rotate_x, rotate_y and rotate_z, in quarter turns.
QuarterTurns == {0, 1}

\* Arrays given to the setters: those of the meshes above.
VertexArrays == {mm.vertices : mm \in InitMeshes}

FaceArrays == {mm.faces : mm \in InitMeshes} \cup {<<>>}

-----------------------------------------------------------------------------
(* Reports on the mesh: they change nothing but the cache they read        *)
(* through.                                                                *)

\* The least and the greatest of column j of the vertex array.
ColumnMin(v, j) == CHOOSE x \in {v[i][j] : i \in DOMAIN v} : \A i \in DOMAIN v : x <= v[i][j]

ColumnMax(v, j) == CHOOSE x \in {v[i][j] : i \in DOMAIN v} : \A i \in DOMAIN v : v[i][j] <= x

\* Lines 843-849: (xmin, xmax, ymin, ymax, zmin, zmax), zeros without
\* vertices.
axis_aligned_bbox(m) ==
    IF nb_vertices(m) > 0
    THEN <<ColumnMin(m.vertices, 1), ColumnMax(m.vertices, 1),
           ColumnMin(m.vertices, 2), ColumnMax(m.vertices, 2),
           ColumnMin(m.vertices, 3), ColumnMax(m.vertices, 3)>>
    ELSE <<0, 0, 0, 0, 0, 0>>

\* Lines 93-102: the values the template is filled with, after the name
\* (which the arrays and the cache do not hold).
StrValues(m) ==
    IF m.exc # "none" THEN m
    ELSE Return(m, <<nb_vertices(m), nb_faces(m),
                     Len(m.internals["triangles_ids"]),
                     Len(m.internals["quadrangles_ids"])>>
                   \o axis_aligned_bbox(m))

\* Lines 75-102: the box is read first, then the four counts; the last
\* two come through the getters and leave the classification cached.
__str__(m) == StrValues(Then(nb_triangles(m), nb_quadrangles))

\* Lines 651-662, ax being None: max() of an empty column raises
\* ValueError; the call returns None.
ShowAxes(m) ==
    IF m.exc # "none" THEN m
    ELSE IF nb_vertices(m) = 0 THEN Raise(m, "ValueError")
    ELSE Return(m, "None")

\* Line 649: zip(*a) of an array a of shape (n, 3) yields its three
\* columns, and nothing when n = 0.  quiver then receives none of the six
\* coordinate arguments it requires, and the call ends with TypeError.
Quiver(m) ==
    IF m.exc # "none" THEN m
    ELSE IF nb_faces(m) = 0 THEN Raise(m, "TypeError")
    ELSE m

\* Lines 643-649, scale_normal_vector being None: the normals and the
\* centers are read through their getters and handed to quiver.
ShowNormals(m, normal_vectors) ==
    IF normal_vectors
    THEN Quiver(Then(faces_normals(m), faces_centers))
    ELSE m

\* Lines 630-662, on a new axis: the vertices of each face are collected,
\* (IndexError when a face names a vertex that is not there), then the
\* normals are drawn if asked for, and the limits of the axes are set.
\* What matplotlib draws is not modelled.
show_matplotlib(m, normal_vectors) ==
    IF ~IndicesInBounds(m.faces, nb_vertices(m)) THEN Raise(m, "IndexError")
    ELSE ShowAxes(ShowNormals(m, normal_vectors))

\* Plane.orthogonal_projection_on_plane of meshmagick.geometry, for the
\* planes of lines 909-916: through the origin (c = 0), with a unit normal.
\* Each point p goes to p - (p . normal) normal, its three coordinates
\* kept.
orthogonal_projection_on_plane(normal, points) ==
    [i \in DOMAIN points |->
        LET d == Dot(points[i], normal)
        IN  VSub(points[i], <<d * normal[1], d * normal[2], d * normal[3]>>)]

RECURSIVE CurveArea(_, _, _, _)
\* Lines 921, 925 and 929: the sum over the first n points of the curve of
\* (d[k+1] - d[k]) * (s[k+1] + s[k]), d and s being the columns jd and js
\* of proj; np.roll(., -1) puts the first point after the last.
CurveArea(proj, jd, js, n) ==
    IF n = 0 THEN 0
    ELSE LET nxt == proj[(n % Len(proj)) + 1]
         IN  (nxt[jd] - proj[n][jd]) * (nxt[js] + proj[n][js])
                 + CurveArea(proj, jd, js, n - 1)

\* Lines 904-931: the three areas of one boundary are all below tol.
\* Each is read from the first two columns of a projection; on integral
\* coordinates an area is below tol = 1e-7 exactly when it is zero.
CurveCollapsed(m, boundary) ==
    LET boundary_vertices == [k \in DOMAIN boundary |-> At(m.vertices, boundary[k])]
        proj0 == orthogonal_projection_on_plane(<<0, 0, 1>>, boundary_vertices)
        proj1 == orthogonal_projection_on_plane(<<1, 0, 0>>, boundary_vertices)
        proj2 == orthogonal_projection_on_plane(<<0, 1, 0>>, boundary_vertices)
        a0 == CurveArea(proj0, 2, 1, Len(boundary))
        a1 == CurveArea(proj1, 1, 2, Len(boundary))
        a2 == CurveArea(proj2, 1, 2, Len(boundary))
    IN  a0 = 0 /\ a1 = 0 /\ a2 = 0

\* Lines 901-934: the vertices of each boundary are taken (IndexError when
\* it names a vertex that is not there), and the answer is False as soon
\* as one boundary has its three areas below tol.
ConformalLoop(m) ==
    IF m.exc # "none" THEN m
    ELSE IF "boundaries" \notin DOMAIN m.internals THEN Raise(m, "KeyError")
    ELSE LET bs == m.internals["boundaries"]
         IN  IF \E k \in DOMAIN bs : ~InBounds(bs[k], nb_vertices(m))
             THEN Raise(m, "IndexError")
             ELSE Return(m, \A k \in DOMAIN bs : ~CurveCollapsed(m, bs[k]))

\* Lines 898-899 test 'v_v', as _has_connectivity does.
is_mesh_conformal(m) == ConformalLoop(Ensure(m, "v_v", _connectivity))

\* The RigidBodyInertia built on lines 1751 and 1787 is a value object of
\* meshmagick.inertia: the model keeps what the call does to the mesh and
\* returns the object as an opaque value.
ReturnInertia(m) ==
    IF m.exc # "none" THEN m ELSE Return(m, "RigidBodyInertia")

\* Lines 1773-1787: the areas are read, then the surface integrals.
eval_shell_mesh_inertias(m) ==
    ReturnInertia(Then(faces_areas(m), get_surface_integrals))

\* Lines 1731-1751: the volume is read, then the surface integrals, then
\* the normals.
eval_plain_mesh_inertias(m) ==
    ReturnInertia(Then(Then(volume(m), get_surface_integrals), faces_normals))

-----------------------------------------------------------------------------
(* The state machine: one action per public call.                          *)

\* The mesh object as the next call finds it.
Cur ==
    [vertices |-> vertices, faces |-> faces, internals |-> internals,
     exc |-> "none", ret |-> "None"]

\* One more call can be made.
Callable == nops < MaxOps

\* The outcome of the call op that left the mesh as m: the value returned
\* ("None" when the call returns nothing) under the name of the call, or
\* "None" under the name of the exception that ended it.
Outcome(op, m) ==
    [k \in {IF m.exc = "none" THEN op ELSE m.exc} |->
        IF m.exc = "none" THEN m.ret ELSE "None"]

\* The call op(arg) leaves the mesh as m.
Apply(op, arg, m) ==
    /\ vertices' = m.vertices
    /\ faces' = m.faces
    /\ internals' = m.internals
    /\ before' = [vertices |-> vertices, faces |-> faces, internals |-> internals]
    /\ exc' = m.exc
    /\ ret' = Outcome(op, m)
    /\ last' = [op |-> op, arg |-> arg]
    /\ nops' = nops + 1

InitWith(meshes) ==
    /\ \E mm \in meshes :
          /\ vertices = mm.vertices
          /\ faces = mm.faces
          /\ internals = mm.internals
          /\ before = [vertices |-> mm.vertices, faces |-> mm.faces,
                       internals |-> mm.internals]
    /\ last = [op |-> "__init__", arg |-> "None"]
    /\ ret = Outcome("__init__", Mesh(<<>>, <<>>))
    /\ exc = "none"
    /\ nops = 0

Init == InitWith(InitMeshes)

Call_triangles_ids ==
    /\ Callable
    /\ Apply("triangles_ids", "None", triangles_ids(Cur))

Call_nb_triangles ==
    /\ Callable
    /\ Apply("nb_triangles", "None", nb_triangles(Cur))

Call_quadrangles_ids ==
    /\ Callable
    /\ Apply("quadrangles_ids", "None", quadrangles_ids(Cur))

Call_nb_quadrangles ==
    /\ Callable
    /\ Apply("nb_quadrangles", "None", nb_quadrangles(Cur))

Call_faces_areas ==
    /\ Callable
    /\ Apply("faces_areas", "None", faces_areas(Cur))

Call_faces_normals ==
    /\ Callable
    /\ Apply("faces_normals", "None", faces_normals(Cur))

Call_faces_centers ==
    /\ Callable
    /\ Apply("faces_centers", "None", faces_centers(Cur))

Call_faces_radiuses ==
    /\ Callable
    /\ Apply("faces_radiuses", "None", faces_radiuses(Cur))

Call_vv ==
    /\ Callable
    /\ Apply("vv", "None", vv(Cur))

Call_vf ==
    /\ Callable
    /\ Apply("vf", "None", vf(Cur))

Call_ff ==
    /\ Callable
    /\ Apply("ff", "None", ff(Cur))

Call_boundaries ==
    /\ Callable
    /\ Apply("boundaries", "None", boundaries(Cur))

Call_nb_boundaries ==
    /\ Callable
    /\ Apply("nb_boundaries", "None", nb_boundaries(Cur))

Call_is_mesh_closed ==
    /\ Callable
    /\ Apply("is_mesh_closed", "None", is_mesh_closed(Cur))

Call_get_surface_integrals ==
    /\ Callable
    /\ Apply("get_surface_integrals", "None", get_surface_integrals(Cur))

Call_volume ==
    /\ Callable
    /\ Apply("volume", "None", volume(Cur))

Call___str__ ==
    /\ Callable
    /\ Apply("__str__", "None", __str__(Cur))

Call_show_matplotlib ==
    /\ Callable
    /\ \E normal_vectors \in BOOLEAN :
           Apply("show_matplotlib", normal_vectors,
                 show_matplotlib(Cur, normal_vectors))

Call_is_mesh_conformal ==
    /\ Callable
    /\ Apply("is_mesh_conformal", "None", is_mesh_conformal(Cur))

Call_eval_plain_mesh_inertias ==
    /\ Callable
    /\ Apply("eval_plain_mesh_inertias", "None", eval_plain_mesh_inertias(Cur))

Call_eval_shell_mesh_inertias ==
    /\ Callable
    /\ Apply("eval_shell_mesh_inertias", "None", eval_shell_mesh_inertias(Cur))

Call_set_vertices ==
    /\ Callable
    /\ \E value \in VertexArrays :
           Apply("vertices.setter", value, set_vertices(Cur, value))

Call_set_faces ==
    /\ Callable
    /\ \E value \in FaceArrays :
           Apply("faces.setter", value, set_faces(Cur, value))

Call_rotate ==
    /\ Callable
    /\ \E angles \in Angles : Apply("rotate", angles, rotate(Cur, angles))

Call_rotate_x ==
    /\ Callable
    /\ \E thetax \in QuarterTurns : Apply("rotate_x", thetax, rotate_x(Cur, thetax))

Call_rotate_y ==
    /\ Callable
    /\ \E thetay \in QuarterTurns : Apply("rotate_y", thetay, rotate_y(Cur, thetay))

Call_rotate_z ==
    /\ Callable
    /\ \E thetaz \in QuarterTurns : Apply("rotate_z", thetaz, rotate_z(Cur, thetaz))

Call_translate_x ==
    /\ Callable
    /\ \E tx \in Translations : Apply("translate_x", tx, translate_x(Cur, tx))

Call_translate_y ==
    /\ Callable
    /\ \E ty \in Translations : Apply("translate_y", ty, translate_y(Cur, ty))

Call_translate_z ==
    /\ Callable
    /\ \E tz \in Translations : Apply("translate_z", tz, translate_z(Cur, tz))

Call_translate ==
    /\ Callable
    /\ \E tx \in Translations :
           Apply("translate", <<tx, 0, tx>>, translate(Cur, <<tx, 0, tx>>))

Call_scale ==
    /\ Callable
    /\ \E alpha \in ScaleFactors : Apply("scale", alpha, scale(Cur, alpha))

Call_scalex ==
    /\ Callable
    /\ \E alpha \in ScaleFactors : Apply("scalex", alpha, scalex(Cur, alpha))

Call_scaley ==
    /\ Callable
    /\ \E alpha \in ScaleFactors : Apply("scaley", alpha, scaley(Cur, alpha))

Call_scalez ==
    /\ Callable
    /\ \E alpha \in ScaleFactors : Apply("scalez", alpha, scalez(Cur, alpha))

Call_flip_normals ==
    /\ Callable
    /\ Apply("flip_normals", "None", flip_normals(Cur))

Call_merge_duplicates ==
    /\ Callable
    /\ Apply("merge_duplicates", "None", merge_duplicates(Cur))

Call_heal_normals ==
    /\ Callable
    /\ Apply("heal_normals", "None", heal_normals(Cur))

Call_remove_unused_vertices ==
    /\ Callable
    /\ Apply("remove_unused_vertices", "None", remove_unused_vertices(Cur))


Call_heal_triangles ==
    /\ Callable
    /\ Apply("heal_triangles", "None", heal_triangles(Cur))

Call_remove_degenerated_faces ==
    /\ Callable
    /\ Apply("remove_degenerated_faces", "None", remove_degenerated_faces(Cur))


Call_heal_mesh ==
    /\ Callable
    /\ Apply("heal_mesh", "None", heal_mesh(Cur))

Call_triangulate_quadrangles ==
    /\ Callable
    /\ Apply("triangulate_quadrangles", "None", triangulate_quadrangles(Cur))


Call_symmetrize ==
    /\ Callable
    /\ \E plane \in Planes : Apply("symmetrize", plane, symmetrize(Cur, plane))

Call_mirror ==
    /\ Callable
    /\ \E plane \in Planes : Apply("mirror", plane, mirror(Cur, plane))

\* The public calls that change the arrays or go through the cache are
\* possible at every moment, the setters among them.  The rotations are
\* followed in NextTriangle, NextRigid and NextBounds; extract_faces and
\* __add__, which build another mesh, have their actions further down;
\* is_triangle, get_face, the bounding boxes, the edge lengths and copy
\* read the arrays and leave the mesh as it is.
Next ==
    \/ Call___str__
    \/ Call_show_matplotlib
    \/ Call_is_mesh_conformal
    \/ Call_eval_plain_mesh_inertias
    \/ Call_eval_shell_mesh_inertias
    \/ Call_triangles_ids
    \/ Call_nb_triangles
    \/ Call_quadrangles_ids
    \/ Call_nb_quadrangles
    \/ Call_faces_areas
    \/ Call_faces_normals
    \/ Call_faces_centers
    \/ Call_faces_radiuses
    \/ Call_vv
    \/ Call_vf
    \/ Call_ff
    \/ Call_boundaries
    \/ Call_nb_boundaries
    \/ Call_is_mesh_closed
    \/ Call_get_surface_integrals
    \/ Call_volume
    \/ Call_set_vertices
    \/ Call_set_faces
    \/ Call_translate_x
    \/ Call_translate_y
    \/ Call_translate_z
    \/ Call_translate
    \/ Call_scale
    \/ Call_scalex
    \/ Call_scaley
    \/ Call_scalez
    \/ Call_flip_normals
    \/ Call_merge_duplicates
    \/ Call_heal_normals
    \/ Call_remove_unused_vertices
    \/ Call_heal_triangles
    \/ Call_remove_degenerated_faces
    \/ Call_heal_mesh
    \/ Call_triangulate_quadrangles
    \/ Call_symmetrize
    \/ Call_mirror

Spec == Init /\ [][Next]_vars

-----------------------------------------------------------------------------
(* A closed mesh: the unit cube.                                           *)

\* The cube [0, 1]^3, six quadrangles wound counterclockwise seen from
\* outside: top, bottom, front, right, back, left.
UnitCube ==
    Mesh(<<<<0, 0, 0>>, <<1, 0, 0>>, <<1, 1, 0>>, <<0, 1, 0>>,
           <<0, 0, 1>>, <<1, 0, 1>>, <<1, 1, 1>>, <<0, 1, 1>>>>,
         <<<<4, 5, 6, 7>>, <<0, 3, 2, 1>>, <<0, 1, 5, 4>>,
           <<1, 2, 6, 5>>, <<3, 7, 6, 2>>, <<0, 4, 7, 3>>>>)

\* The same cube with its bottom face wound the other way.
MixedCube ==
    Mesh(UnitCube.vertices, [UnitCube.faces EXCEPT ![2] = <<1, 2, 3, 0>>])

\* The same cube with every face wound the other way.
InwardCube ==
    Mesh(UnitCube.vertices, [i \in DOMAIN UnitCube.faces |-> Reverse(UnitCube.faces[i])])

InitCube == InitWith({UnitCube, MixedCube, InwardCube})

\* The calls that keep the cube a cube with faces in the coordinate planes.
NextCube ==
    \/ Call_triangles_ids
    \/ Call_quadrangles_ids
    \/ Call_faces_areas
    \/ Call_faces_normals
    \/ Call_faces_centers
    \/ Call_faces_radiuses
    \/ Call_ff
    \/ Call_boundaries
    \/ Call_is_mesh_closed
    \/ Call_get_surface_integrals
    \/ Call_volume
    \/ Call_translate_z
    \/ Call_scale
    \/ Call_flip_normals
    \/ Call_heal_normals

SpecCube == InitCube /\ [][NextCube]_vars

-----------------------------------------------------------------------------
(* An open mesh of one face: a single triangle.                            *)

\* The triangle (0,0,0), (1,0,0), (0,1,0).
Triangle ==
    Mesh(<<<<0, 0, 0>>, <<1, 0, 0>>, <<0, 1, 0>>>>, <<<<0, 1, 2, 0>>>>)

InitTriangle == InitWith({Triangle})

\* The triangle is moved, turned and scaled, and its properties are read.
NextTriangle ==
    \/ Call_faces_areas
    \/ Call_faces_normals
    \/ Call_faces_centers
    \/ Call_get_surface_integrals
    \/ Call_volume
    \/ Call_rotate
    \/ Call_translate_x
    \/ Call_translate_y
    \/ Call_translate_z
    \/ Call_translate
    \/ Call_scale

SpecTriangle == InitTriangle /\ [][NextTriangle]_vars

-----------------------------------------------------------------------------
(* Properties.                                                             *)

\* The mesh as the last call found it.
Before ==
    [vertices |-> before.vertices, faces |-> before.faces,
     internals |-> before.internals, exc |-> "none", ret |-> "None"]

\* What the last call returned, when it returned.
Returned == ret[last.op]

\* The mesh built anew from the current arrays, its cache empty.
Fresh == Mesh(vertices, faces)

\* The last call returned and left another vertex or face array.
ArraysChanged ==
    /\ exc = "none"
    /\ vertices # before.vertices \/ faces # before.faces

\* C1: at every moment nb_triangles + nb_quadrangles = nb_faces, and
\* triangles_ids and quadrangles_ids together hold every index of the
\* current face array exactly once.
C1_ClassificationPartitionsFaces ==
    /\ nb_triangles(Cur).ret + nb_quadrangles(Cur).ret = nb_faces(Cur)
    /\ Range(triangles_ids(Cur).ret) \cup Range(quadrangles_ids(Cur).ret)
          = 0..(nb_faces(Cur) - 1)
    /\ Range(triangles_ids(Cur).ret) \cap Range(quadrangles_ids(Cur).ret) = {}

\* C2: after a call that changed the vertices or the faces, whatever the
\* cache held before, the cache holds no surface integrals other than
\* those of the current arrays, so that the next get_surface_integrals()
\* is computed from the current arrays.
C2_SurfaceIntegralsFollowArrays ==
    ArraysChanged =>
        \/ "surface_integrals" \notin DOMAIN internals
        \/ internals["surface_integrals"] = get_surface_integrals(Fresh).ret

\* C3: after a scaling returned, the cache holds none of faces_areas,
\* faces_normals, faces_centers and faces_radiuses, so that none of them
\* is served from a value computed before the scaling.
C3_ScalingDropsFaceGeometry ==
    (last.op \in {"scale", "scalex", "scaley", "scalez"} /\ exc = "none") =>
        {"faces_areas", "faces_normals", "faces_centers", "faces_radiuses"}
            \cap DOMAIN internals = {}

\* C4: the connectivity the cache holds, which a read returns, is at every
\* moment the connectivity computed from scratch on the current arrays.
C4_ConnectivityFollowsFaces ==
    "v_v" \in DOMAIN internals =>
        /\ _connectivity(Fresh).exc = "none"
        /\ \A key \in {"v_v", "v_f", "boundaries"} :
              internals[key] = _connectivity(Fresh).internals[key]
        /\ FFMembers(internals["f_f"])
               = FFMembers(_connectivity(Fresh).internals["f_f"])

\* C5: assigning vertices or faces leaves an empty cache, the assigned
\* array in its place and the other array as it was.
C5_SettersClearCache ==
    /\ last.op = "vertices.setter" =>
          internals = EmptyDict /\ vertices = last.arg /\ faces = before.faces
    /\ last.op = "faces.setter" =>
          internals = EmptyDict /\ faces = last.arg /\ vertices = before.vertices

\* C5 is exercised: faces were assigned to a mesh whose cache held the
\* classification, the face geometry, the surface integrals and the
\* connectivity.
C5_Witness ==
    /\ last.op = "faces.setter"
    /\ {"triangles_ids", "faces_areas", "surface_integrals", "v_v", "boundaries"}
          \subseteq DOMAIN before.internals
    /\ faces # before.faces
    /\ internals = EmptyDict

\* The cache key each read of a derived property returns.
ReadKey ==
    [triangles_ids |-> "triangles_ids", quadrangles_ids |-> "quadrangles_ids",
     faces_areas |-> "faces_areas", faces_normals |-> "faces_normals",
     faces_centers |-> "faces_centers", faces_radiuses |-> "faces_radiuses",
     vv |-> "v_v", vf |-> "v_f", ff |-> "f_f", boundaries |-> "boundaries",
     get_surface_integrals |-> "surface_integrals"]

\* C6: a read of a derived property leaves the arrays alone; when the
\* property is in the cache the read returns the stored value and leaves
\* the cache as it is; a read that returns has stored what it returns.
C6_ReadsAreMemoized ==
    last.op \in DOMAIN ReadKey =>
        /\ vertices = before.vertices
        /\ faces = before.faces
        /\ ReadKey[last.op] \in DOMAIN before.internals =>
              /\ exc = "none"
              /\ internals = before.internals
              /\ Returned = before.internals[ReadKey[last.op]]
        /\ exc = "none" =>
              /\ ReadKey[last.op] \in DOMAIN internals
              /\ Returned = internals[ReadKey[last.op]]

\* C6 is exercised: faces_normals was read twice in a row, the second read
\* served from the cache.
C6_Witness ==
    /\ last.op = "faces_normals"
    /\ "faces_normals" \in DOMAIN before.internals
    /\ before.vertices = vertices
    /\ exc = "none"
    /\ Returned = before.internals["faces_normals"]

\* C7: scale(2) on a closed mesh multiplies what volume returns by 8 and
\* the sum of faces_areas by 4, whatever was read before.
C7_ScaleTwoVolumeEightAreaFour ==
    (last.op = "scale" /\ exc = "none" /\ last.arg = 2
        /\ is_mesh_closed(Before).ret = TRUE) =>
        /\ volume(Cur).ret = QMul(FromInt(8), volume(Before).ret)
        /\ QSum(faces_areas(Cur).ret) = QMul(FromInt(4), QSum(faces_areas(Before).ret))

\* C8: a mesh of one triangle on three vertices has volume 0 wherever it
\* lies, and its area is half the norm of the cross product of two edges.
C8_TriangleVolumeZero ==
    (nb_vertices(Cur) = 3 /\ nb_faces(Cur) = 1) =>
        /\ volume(Cur).ret = FromInt(0)
        /\ faces_areas(Cur).ret[1] =
              Frac(VNorm(Cross(VSub(FV(vertices, faces[1], 1), FV(vertices, faces[1], 0)),
                               VSub(FV(vertices, faces[1], 2), FV(vertices, faces[1], 0)))),
                   2)

\* C9: the unit cube wound outward has volume 1 and is closed.
C9_UnitCubeVolumeOne ==
    (vertices = UnitCube.vertices /\ faces = UnitCube.faces) =>
        /\ volume(Cur).ret = FromInt(1)
        /\ is_mesh_closed(Cur).ret = TRUE

\* C9 is exercised: on the unit cube volume was read, its surface integrals
\* and face normals computed, and then is_mesh_closed returned True.
C9_Witness ==
    /\ vertices = UnitCube.vertices
    /\ faces = UnitCube.faces
    /\ last.op = "is_mesh_closed"
    /\ exc = "none"
    /\ Returned = TRUE
    /\ {"surface_integrals", "faces_normals"} \subseteq DOMAIN internals
    /\ volume(Cur).ret = FromInt(1)

\* C10: when heal_normals returned on a closed mesh, the z-component of
\* the sanity vector computed anew on the resulting arrays is not
\* negative, whatever the cache held before the call.
C10_HealedNormalsOutward ==
    (last.op = "heal_normals" /\ exc = "none" /\ boundaries(Fresh).ret = <<>>) =>
        ~QLt(SanityZ(MaxZ(vertices),
                     faces_areas(Fresh).ret, faces_normals(Fresh).ret,
                     faces_centers(Fresh).ret),
             FromInt(0))

\* C11: when heal_normals returned on a mesh that has two adjacent faces,
\* a second heal_normals called directly after it returns too and leaves
\* the face array as the first call left it.
C11_HealNormalsIdempotent ==
    (/\ last.op = "heal_normals"
     /\ exc = "none"
     /\ \E i \in DOMAIN ff(Fresh).ret : ff(Fresh).ret[i] # <<>>) =>
        /\ heal_normals(Cur).exc = "none"
        /\ heal_normals(Cur).faces = faces

-----------------------------------------------------------------------------
(* Mirroring about several planes.                                         *)

\* The planes x = 0, y = 1 and z = 1, each with its unit normal.
MirrorPlanes ==
    {[normal |-> <<1, 0, 0>>, c |-> 0],
     [normal |-> <<0, 1, 0>>, c |-> 1],
     [normal |-> <<0, 0, 1>>, c |-> 1]}

Call_mirror_about ==
    /\ Callable
    /\ \E plane \in MirrorPlanes : Apply("mirror", plane, mirror(Cur, plane))

InitMirror == InitWith(InitMeshes)

\* The mesh is mirrored, flipped and moved, and its properties are read.
NextMirror ==
    \/ Call_faces_normals
    \/ Call_get_surface_integrals
    \/ Call_boundaries
    \/ Call_translate_x
    \/ Call_flip_normals
    \/ Call_mirror_about

SpecMirror == InitMirror /\ [][NextMirror]_vars

\* C12: a mirror keeps the number of vertices and of faces and leaves every
\* face with its vertices in the reverse order; a second mirror about the
\* same plane gives back the vertices and the faces the first one found,
\* a triangle still written with its first vertex repeated in the last slot.
C12_MirrorTwiceRestores ==
    (last.op = "mirror" /\ exc = "none") =>
        /\ Len(vertices) = Len(before.vertices)
        /\ Len(faces) = Len(before.faces)
        /\ \A i \in DOMAIN faces : faces[i] = Reverse(before.faces[i])
        /\ mirror(Cur, last.arg).exc = "none"
        /\ mirror(Cur, last.arg).vertices = before.vertices
        /\ mirror(Cur, last.arg).faces = before.faces
        /\ \A i \in DOMAIN faces :
              (before.faces[i][1] = before.faces[i][4])
                  <=> (mirror(Cur, last.arg).faces[i][1] = mirror(Cur, last.arg).faces[i][4])

\* C12 is exercised: a mesh holding a quadrangle and a triangle, its face
\* normals cached, was mirrored about a plane away from the origin, which
\* moved its vertices.
C12_Witness ==
    /\ last.op = "mirror"
    /\ exc = "none"
    /\ last.arg.c # 0
    /\ vertices # before.vertices
    /\ "faces_normals" \in DOMAIN before.internals
    /\ \E i \in DOMAIN before.faces : before.faces[i][1] = before.faces[i][4]
    /\ \E i \in DOMAIN before.faces : before.faces[i][1] # before.faces[i][4]
    /\ mirror(Cur, last.arg).vertices = before.vertices

\* The indices of the faces of fs that are quadrangles, ascending.
QuadsOf(fs) ==
    SortedSeq({i \in 0..(Len(fs) - 1) : At(fs, i)[1] # At(fs, i)[4]})

\* C13: triangulate_quadrangles returns and leaves nt + 2 nq faces, all of
\* them triangles; a face that was a triangle keeps its index and its
\* vertices, a quadrangle (v0, v1, v2, v3) is replaced by the triangles
\* (v0, v1, v2) and (v0, v2, v3), one at the index of the quadrangle and
\* one appended after the faces there were; the vertices are unchanged
\* and the cache is empty.
C13_TriangulateSplitsEveryQuad ==
    last.op = "triangulate_quadrangles" =>
        /\ exc = "none"
        /\ Len(faces) = Len(before.faces) + Len(QuadsOf(before.faces))
        /\ \A i \in DOMAIN faces : faces[i][1] = faces[i][4]
        /\ \A i \in DOMAIN before.faces :
              before.faces[i][1] = before.faces[i][4] => faces[i] = before.faces[i]
        /\ \A k \in DOMAIN QuadsOf(before.faces) :
              LET q == At(before.faces, QuadsOf(before.faces)[k])
              IN  {At(faces, QuadsOf(before.faces)[k]), faces[Len(before.faces) + k]}
                      = {<<q[1], q[2], q[3], q[1]>>, <<q[1], q[3], q[4], q[1]>>}
        /\ vertices = before.vertices
        /\ internals = EmptyDict

-----------------------------------------------------------------------------
(* Merging duplicate vertices, on meshes and on sums of meshes.            *)

\* The mesh is added to itself or to the quadrangle and triangle.
Call___add__ ==
    /\ Callable
    /\ \E other \in {Arrays(Cur), Arrays(QuadTri)} :
          Apply("__add__", other, __add__(Cur, Mesh(other.vertices, other.faces)))

InitMerge == InitWith(InitMeshes)

NextMerge ==
    \/ Call_vv
    \/ Call_faces_areas
    \/ Call_translate_x
    \/ Call_flip_normals
    \/ Call_remove_unused_vertices
    \/ Call_merge_duplicates
    \/ Call___add__

SpecMerge == InitMerge /\ [][NextMerge]_vars

\* No two rows of the vertex array vs are equal.
NoDuplicates(vs) == Cardinality(Range(vs)) = Len(vs)

\* C14: merge_duplicates on a mesh without duplicate vertices keeps the
\* number of vertices and of faces; the merge of a mesh without duplicate
\* vertices concatenated with itself has as many vertices as the mesh,
\* twice its faces, and in every slot of every face a vertex at the
\* position the slot referred to in the concatenation.
C14_MergeKeepsPositions ==
    /\ (last.op = "merge_duplicates" /\ NoDuplicates(before.vertices)) =>
          /\ exc = "none"
          /\ Len(vertices) = Len(before.vertices)
          /\ Len(faces) = Len(before.faces)
    /\ (last.op = "__add__" /\ last.arg = Arrays(Cur) /\ NoDuplicates(vertices)) =>
          /\ exc = "none"
          /\ Len(Returned.vertices) = Len(vertices)
          /\ Len(Returned.faces) = 2 * Len(faces)
          /\ \A i \in DOMAIN Returned.faces : \A j \in 1..4 :
                At(Returned.vertices, Returned.faces[i][j])
                    = At(Concatenate(Cur, Cur).vertices,
                         Concatenate(Cur, Cur).faces[i][j])

\* C14 is exercised: a mesh of five distinct vertices was added to itself,
\* and the sum came back with five vertices and renumbered faces.
C14_Witness ==
    /\ last.op = "__add__"
    /\ exc = "none"
    /\ last.arg = Arrays(Cur)
    /\ NoDuplicates(vertices)
    /\ Len(vertices) = 5
    /\ Len(Returned.vertices) = 5
    /\ Returned.faces # Concatenate(Cur, Cur).faces

-----------------------------------------------------------------------------
(* Connectivity on closed, open, inconsistently wound and non-manifold     *)
(* meshes.                                                                 *)

\* Two triangles on the edge {1, 2}, both running through it from 1 to 2:
\* their windings disagree.
TwistedPair ==
    Mesh(<<<<0, 0, 0>>, <<1, 0, 0>>, <<0, 1, 0>>, <<1, 1, 0>>>>,
         <<<<0, 1, 2, 0>>, <<1, 2, 3, 1>>>>)

\* Three triangles on the edge {0, 1}.
Fin ==
    Mesh(<<<<0, 0, 0>>, <<1, 0, 0>>, <<0, 1, 0>>, <<0, 0, 1>>, <<0, -1, 0>>>>,
         <<<<0, 1, 2, 0>>, <<0, 1, 3, 0>>, <<0, 1, 4, 0>>>>)

InitTopology == InitWith({UnitCube, MixedCube, QuadTri, TwistedPair, Fin})

NextTopology ==
    \/ Call_triangles_ids
    \/ Call_faces_areas
    \/ Call_vv
    \/ Call_vf
    \/ Call_ff
    \/ Call_boundaries
    \/ Call_nb_boundaries
    \/ Call_is_mesh_closed
    \/ Call_flip_normals
    \/ Call_heal_normals

SpecTopology == InitTopology /\ [][NextTopology]_vars

\* The edges of the face f: the pairs of vertices that follow each other
\* around it.
FaceEdges(f) ==
    {{face_w(f)[k], face_w(f)[(k % Len(face_w(f))) + 1]} : k \in DOMAIN face_w(f)}

\* The faces of fs, by Python index, that have the edge e.
Incident(fs, e) == {i \in 0..(Len(fs) - 1) : e \in FaceEdges(At(fs, i))}

EdgesOf(fs) == UNION {FaceEdges(fs[i]) : i \in DOMAIN fs}

EdgeManifold(fs) == \A e \in EdgesOf(fs) : Cardinality(Incident(fs, e)) <= 2

HasBoundaryEdge(fs) == \E e \in EdgesOf(fs) : Cardinality(Incident(fs, e)) = 1

\* C15: on a mesh whose edges have at most two faces each, connectivity
\* computed on the current arrays reports the mesh closed, and counts no
\* boundary, exactly when no edge has a single face.
C15_ClosedIffNoBoundaryEdge ==
    (EdgeManifold(faces) /\ is_mesh_closed(Fresh).exc = "none") =>
        /\ is_mesh_closed(Fresh).ret = ~HasBoundaryEdge(faces)
        /\ (nb_boundaries(Fresh).ret = 0) = ~HasBoundaryEdge(faces)

\* The faces of fs, by Python index, that hold both vertices of the edge e:
\* the intersection of line 702.
Sharing(fs, e) == {i \in 0..(Len(fs) - 1) : e \subseteq Range(face_w(At(fs, i)))}

\* Some edge of fs is held by more than two faces.
HasNonManifoldEdge(fs) == \E e \in EdgesOf(fs) : Cardinality(Sharing(fs, e)) > 2

\* The calls that compute connectivity when the cache does not hold it.
ConnectivityCalls ==
    {"vv", "vf", "ff", "boundaries", "nb_boundaries", "is_mesh_closed", "heal_normals"}

\* C16: a call that has connectivity computed on a mesh with an edge held
\* by more than two faces ends with RuntimeError, and leaves the vertices,
\* the faces and the cache as it found them: none of v_v, v_f, f_f and
\* boundaries is stored.
C16_NonManifoldEdgeStoresNothing ==
    (/\ last.op \in ConnectivityCalls
     /\ "v_v" \notin DOMAIN before.internals
     /\ HasNonManifoldEdge(before.faces)) =>
        /\ exc = "RuntimeError"
        /\ vertices = before.vertices
        /\ faces = before.faces
        /\ internals = before.internals
        /\ {"v_v", "v_f", "f_f", "boundaries"} \cap DOMAIN internals = {}

\* C16 is exercised: heal_normals was called on the three triangles that
\* share an edge, the face areas being cached, and ended with RuntimeError.
C16_Witness ==
    /\ last.op = "heal_normals"
    /\ exc = "RuntimeError"
    /\ HasNonManifoldEdge(before.faces)
    /\ "faces_areas" \in DOMAIN before.internals
    /\ internals = before.internals

-----------------------------------------------------------------------------
(* Scaling by positive, zero and negative factors.                         *)

InitScale == InitWith(InitMeshes)

NextScale ==
    \/ Call_faces_areas
    \/ Call_faces_radiuses
    \/ Call_get_surface_integrals
    \/ Call_vv
    \/ Call_translate_z
    \/ Call_scale
    \/ Call_scalex
    \/ Call_scaley
    \/ Call_scalez

SpecScale == InitScale /\ [][NextScale]_vars

\* C17: a scaling by a factor that is not positive ends with an error and
\* leaves the vertices, the faces and the cache as it found them.
C17_NonPositiveScaleChangesNothing ==
    (last.op \in {"scale", "scalex", "scaley", "scalez"} /\ last.arg <= 0) =>
        /\ exc = "AssertionError"
        /\ vertices = before.vertices
        /\ faces = before.faces
        /\ internals = before.internals

\* C17 is exercised: scalex(-1) and scale(0) were refused on a mesh whose
\* cache held face areas, radiuses and surface integrals.
C17_Witness ==
    /\ last.op \in {"scale", "scalex"}
    /\ last.arg <= 0
    /\ exc = "AssertionError"
    /\ {"faces_areas", "faces_radiuses", "surface_integrals"}
          \subseteq DOMAIN before.internals
    /\ internals = before.internals
    /\ vertices = before.vertices

-----------------------------------------------------------------------------
(* Extraction of a selection of faces.                                     *)

\* Selections of faces: none, one, two in either order, one taken twice,
\* and an index that the meshes of two faces do not have.
FaceSelections == {<<>>, <<0>>, <<1>>, <<1, 0>>, <<1, 1>>, <<2>>}

Call_extract_faces ==
    /\ Callable
    /\ \E ids \in FaceSelections :
          Apply("extract_faces", ids, extract_faces(Cur, ids, FALSE))

Call_extract_faces_return_index ==
    /\ Callable
    /\ \E ids \in FaceSelections :
          Apply("extract_faces_return_index", ids, extract_faces(Cur, ids, TRUE))

InitExtract == InitWith(InitMeshes)

NextExtract ==
    \/ Call_faces_areas
    \/ Call_vv
    \/ Call_flip_normals
    \/ Call_remove_unused_vertices
    \/ Call_extract_faces
    \/ Call_extract_faces_return_index

SpecExtract == InitExtract /\ [][NextExtract]_vars

\* extract_faces was the last call, and returned.
Extracted ==
    /\ last.op \in {"extract_faces", "extract_faces_return_index"}
    /\ exc = "none"

\* The vertices of the source mesh that the faces selected by ids use.
UsedBy(ids) == UNION {Range(At(faces, ids[j])) : j \in DOMAIN ids}

\* C18: the mesh extract_faces returns has for vertices those the selected
\* faces use, in the order the source has them, and face j of it has in
\* each slot a vertex at the position of the same slot of the source face
\* ids[j]; the call leaves the vertices, the faces and the cache of the
\* source as it found them.
C18_ExtractKeepsUsedVertices ==
    /\ last.op \in {"extract_faces", "extract_faces_return_index"} =>
          /\ vertices = before.vertices
          /\ faces = before.faces
          /\ internals = before.internals
    /\ Extracted =>
          /\ Returned.mesh.vertices = Compress(vertices, UsedBy(last.arg))
          /\ Len(Returned.mesh.faces) = Len(last.arg)
          /\ \A j \in DOMAIN last.arg : \A s \in 1..4 :
                /\ Returned.mesh.faces[j][s] \in 0..(Len(Returned.mesh.vertices) - 1)
                /\ At(Returned.mesh.vertices, Returned.mesh.faces[j][s])
                      = At(vertices, At(faces, last.arg[j])[s])

\* C18 is exercised: one face was extracted from a mesh of two faces and
\* five vertices whose cache held connectivity; the new mesh has fewer
\* vertices, and its face other indices than the source face.
C18_Witness ==
    /\ Extracted
    /\ Len(last.arg) = 1
    /\ "v_v" \in DOMAIN internals
    /\ Len(Returned.mesh.vertices) < Len(vertices)
    /\ Returned.mesh.faces[1] # At(faces, last.arg[1])

\* The rank of the vertex i among the vertices in the set used: its index
\* in the extracted mesh.
RankIn(used, i) == (CHOOSE k \in DOMAIN SortedSeq(used) : SortedSeq(used)[k] = i) - 1

\* C19, as stated: the array returned next to the mesh is indexed by the
\* vertex indices of the source, and holds for every vertex a selected
\* face uses the index of that vertex in the extracted mesh.
C19_IndexIsOldToNew ==
    (last.op = "extract_faces_return_index" /\ exc = "none") =>
        \A i \in UsedBy(last.arg) :
            /\ i < Len(Returned.index)
            /\ At(Returned.index, i) = RankIn(UsedBy(last.arg), i)

\* C19, amended: the array returned next to the mesh is indexed by the
\* vertex indices of the extracted mesh, and holds for each of them the
\* index the vertex has in the source: it lists, ascending, the source
\* vertices the selected faces use, and through it every slot of an
\* extracted face leads back to the vertex index of the source face.
C19_IndexIsNewToOld ==
    (last.op = "extract_faces_return_index" /\ exc = "none") =>
        /\ Returned.index = SortedSeq(UsedBy(last.arg))
        /\ Len(Returned.index) = Len(Returned.mesh.vertices)
        /\ \A k \in DOMAIN Returned.index :
              Returned.mesh.vertices[k] = At(vertices, Returned.index[k])
        /\ \A j \in DOMAIN last.arg : \A s \in 1..4 :
              At(Returned.index, Returned.mesh.faces[j][s])
                  = At(faces, last.arg[j])[s]

\* C19 is exercised: a face was extracted with return_index set from a
\* mesh that has vertices the face does not use, and the array returned
\* differs from the old-to-new renumbering.
C19_Witness ==
    /\ last.op = "extract_faces_return_index"
    /\ exc = "none"
    /\ last.arg # <<>>
    /\ Len(Returned.index) < Len(vertices)
    /\ \E i \in UsedBy(last.arg) :
          i >= Len(Returned.index) \/ At(Returned.index, i) # RankIn(UsedBy(last.arg), i)

\* C20: the face/face adjacency a read of ff returns is symmetric: g is in
\* ff[f] exactly when f is in ff[g], also after heal_normals has run.
C20_FaceAdjacencySymmetric ==
    (last.op = "ff" /\ exc = "none") =>
        \A f \in DOMAIN Returned : \A g \in DOMAIN Returned :
            (g \in Range(Returned[f])) <=> (f \in Range(Returned[g]))


-----------------------------------------------------------------------------
(* The flood fill of heal_normals.                                         *)

\* Two triangles on the same three vertices, stored with the same winding.
Pillow ==
    Mesh(<<<<0, 0, 0>>, <<1, 0, 0>>, <<0, 1, 0>>>>,
         <<<<0, 1, 2, 0>>, <<0, 1, 2, 0>>>>)

\* Two quadrangles that share the edges {0, 1} and {1, 2}.
FoldedQuads ==
    Mesh(<<<<0, 0, 0>>, <<1, 0, 0>>, <<1, 1, 0>>, <<0, 1, 0>>, <<0, 2, 0>>>>,
         <<<<0, 1, 2, 3>>, <<0, 1, 2, 4>>>>)

\* Two triangles without a common vertex.
Islands ==
    Mesh(<<<<0, 0, 0>>, <<1, 0, 0>>, <<0, 1, 0>>,
           <<0, 0, 1>>, <<1, 0, 1>>, <<0, 1, 1>>>>,
         <<<<0, 1, 2, 0>>, <<3, 5, 4, 3>>>>)

\* Two triangles that touch at vertex 0 only.
BowTie ==
    Mesh(<<<<0, 0, 0>>, <<1, 0, 0>>, <<0, 1, 0>>, <<-1, 0, 0>>, <<0, -1, 0>>>>,
         <<<<0, 1, 2, 0>>, <<0, 3, 4, 0>>>>)

InitFlood ==
    InitWith({QuadTri, TwistedPair, MixedCube, Pillow, FoldedQuads, Islands, BowTie})

NextFlood ==
    \/ Call_triangles_ids
    \/ Call_ff
    \/ Call_boundaries
    \/ Call_flip_normals
    \/ Call_heal_normals

SpecFlood == InitFlood /\ [][NextFlood]_vars

\* The edges of a face in the direction its storage order runs them.
DirectedEdges(f) ==
    {<<face_w(f)[k], face_w(f)[(k % Len(face_w(f))) + 1]>> : k \in DOMAIN face_w(f)}

\* No edge is run in the same direction by two faces.
ConsistentWinding(fs) ==
    \A i \in DOMAIN fs : \A j \in DOMAIN fs :
        i # j => DirectedEdges(fs[i]) \cap DirectedEdges(fs[j]) = {}

\* Some choice of faces to reverse gives a consistent winding.
Orientable(fs) ==
    \E flips \in SUBSET (DOMAIN fs) :
        ConsistentWinding([i \in DOMAIN fs |->
                              IF i \in flips THEN Reverse(fs[i]) ELSE fs[i]])

\* C21: when heal_normals returns on a mesh that was orientable and had at
\* most two faces on each edge, no two faces run a shared edge in the
\* same direction, and every face that was a triangle with
\* face[0] == face[3] still has face[0] == face[3].
C21_HealedWindingConsistent ==
    (/\ last.op = "heal_normals"
     /\ exc = "none"
     /\ EdgeManifold(Before.faces)
     /\ Orientable(Before.faces))
    => /\ ConsistentWinding(faces)
       /\ \A i \in DOMAIN faces :
             Before.faces[i][1] = Before.faces[i][4] => faces[i][1] = faces[i][4]


\* How many times x occurs in the sequence s.
Count(s, x) == Cardinality({k \in DOMAIN s : s[k] = x})

\* The flood fill the last call of heal_normals ran.
LastFlood == FloodOf(BeforeFlood(Before))

\* The last call was heal_normals on a mesh with at least one face and at
\* most two faces on each edge, and its flood fill started from the
\* face adjacency of that mesh.
FloodRan ==
    /\ last.op = "heal_normals"
    /\ EdgeManifold(Before.faces)
    /\ FloodStarts(BeforeFlood(Before))
    /\ FFMembers(BeforeFlood(Before).internals["f_f"])
           = FFMembers(ff(Mesh(Before.vertices, Before.faces)).ret)

\* C22: the flood fill of heal_normals on a mesh with at least one face
\* and at most two faces on each edge ends without an exception, having
\* marked every face visited exactly once and popped every face from the
\* stack exactly once.
C22_FloodVisitsAndExpandsEachFaceOnce ==
    FloodRan =>
        /\ LastFlood.exc = "none"
        /\ \A f \in 0..(Len(Before.faces) - 1) :
              /\ Count(LastFlood.marked, f) = 1
              /\ Count(LastFlood.popped, f) = 1


-----------------------------------------------------------------------------
(* Boundary-loop extraction, lines 723-752, one iteration of its outer     *)
(* loop at a time.  The state holds the locals boundary_edges and          *)
(* boundaries in internals, the chain the last iteration walked in ret,    *)
(* and the dict the extraction started from in last.arg.                   *)

MaxVertex == 2

\* The dicts {origin: target} over the vertices 0..MaxVertex, in every
\* insertion order.
BoundaryEdgeMaps ==
    {d \in UNION {[1..k -> (0..MaxVertex) \X (0..MaxVertex)] : k \in 0..(MaxVertex + 1)} :
        \A i \in DOMAIN d : \A j \in DOMAIN d : i # j => d[i][1] # d[j][1]}

InitLoops ==
    /\ \E d \in BoundaryEdgeMaps :
          /\ internals = [boundary_edges |-> d, boundaries |-> <<>>]
          /\ before = [vertices |-> <<>>, faces |-> <<>>,
                       internals |-> [boundary_edges |-> d, boundaries |-> <<>>]]
          /\ last = [op |-> "boundary_edges", arg |-> d]
    /\ vertices = <<>>
    /\ faces = <<>>
    /\ exc = "none"
    /\ ret = [boundary_edges |-> "None"]
    /\ nops = 0

\* Lines 727-744: popitem() succeeds and a chain is walked.
Step_popitem ==
    /\ last.op \in {"boundary_edges", "popitem"}
    /\ internals["boundary_edges"] # <<>>
    /\ LET s == LoopStep(internals["boundary_edges"], internals["boundaries"])
       IN  Apply("popitem", last.arg,
                 [vertices |-> <<>>, faces |-> <<>>, exc |-> "none",
                  internals |-> [boundary_edges |-> s.boundary_edges,
                                 boundaries |-> s.boundaries],
                  ret |-> s.boundary])

\* Lines 745-752: popitem() raises KeyError, the loop ends and the loops
\* found are stored.
Step_update ==
    /\ last.op \in {"boundary_edges", "popitem"}
    /\ internals["boundary_edges"] = <<>>
    /\ Apply("update", last.arg,
             [vertices |-> <<>>, faces |-> <<>>, exc |-> "none",
              internals |-> [boundaries |-> internals["boundaries"]],
              ret |-> internals["boundaries"]])

NextLoops ==
    \/ Step_popitem
    \/ Step_update

SpecLoops == InitLoops /\ [][NextLoops]_vars /\ WF_vars(NextLoops)

\* The consecutive pairs of a chain, in order.
Pairs(chain) == [k \in 1..(Len(chain) - 1) |-> <<chain[k], chain[k + 1]>>]

\* What an iteration of the outer loop took out of the dict is exactly the
\* consecutive pairs of the chain it walked, each once.
ConsumedOnce ==
    last.op = "popitem" =>
        /\ Range(Pairs(Returned)) =
              Range(before.internals["boundary_edges"]) \ Range(internals["boundary_edges"])
        /\ Len(Returned) - 1 =
              Len(before.internals["boundary_edges"]) - Len(internals["boundary_edges"])
        /\ Range(internals["boundary_edges"]) \subseteq Range(before.internals["boundary_edges"])

\* Every loop found so far is closed, is made of recorded edges, and has
\* no directed edge in common with another loop.
LoopsWellFormed ==
    LET loops == internals["boundaries"]
    IN  /\ \A i \in DOMAIN loops :
              /\ loops[i][1] = loops[i][Len(loops[i])]
              /\ Range(Pairs(loops[i])) \subseteq Range(last.arg)
        /\ \A i \in DOMAIN loops : \A j \in DOMAIN loops :
              i # j => Range(Pairs(loops[i])) \cap Range(Pairs(loops[j])) = {}

\* C23: from every dict of boundary edges the extraction ends with the dict
\* empty; each iteration takes out of the dict exactly the edges of the
\* chain it walks, each once; every loop returned is closed, runs along
\* recorded edges only, and shares no directed edge with another loop.
C23_LoopExtractionConsumesEveryEdgeOnce ==
    /\ [](ConsumedOnce /\ LoopsWellFormed)
    /\ <>(last.op = "update" /\ Returned = internals["boundaries"])

\* The extraction ended after it returned a loop and dropped an open chain.
C23_Witness ==
    /\ last.op = "update"
    /\ Len(Returned) >= 1
    /\ \E k \in DOMAIN last.arg : \A i \in DOMAIN Returned :
          last.arg[k] \notin Range(Pairs(Returned[i]))


\* The loops of bs that run along the edge e, in either direction.
LoopsAlong(bs, e) ==
    {i \in DOMAIN bs : \E k \in 1..(Len(bs[i]) - 1) : {bs[i][k], bs[i][k + 1]} = e}

\* C24: when boundaries is read on a mesh with at most two faces on each
\* edge and returns what connectivity computed on the current arrays
\* gives, every edge that has exactly one face lies on exactly one of the
\* loops returned.
C24_EveryBoundaryEdgeOnOneLoop ==
    (/\ last.op = "boundaries"
     /\ exc = "none"
     /\ EdgeManifold(faces)
     /\ Returned = boundaries(Fresh).ret)
    => \A e \in EdgesOf(faces) :
          Cardinality(Incident(faces, e)) = 1
              => Cardinality(LoopsAlong(Returned, e)) = 1


-----------------------------------------------------------------------------
(* The direction recorded for a boundary edge, lines 707-719, on a mesh of *)
(* one face.                                                               *)

\* The triangles (a, b, c, a) and the quadrangles (a, b, c, d) on distinct
\* vertices among 0..MaxVertex+1.
SingleFaces ==
    {f \in [1..4 -> 0..(MaxVertex + 1)] :
        /\ Cardinality({f[1], f[2], f[3]}) = 3
        /\ f[4] = f[1] \/ f[4] \notin {f[1], f[2], f[3]}}

InitEdges ==
    /\ \E f \in SingleFaces :
          /\ faces = <<f>>
          /\ before = [vertices |-> <<>>, faces |-> <<f>>, internals |-> EmptyDict]
    /\ vertices = <<>>
    /\ internals = EmptyDict
    /\ last = [op |-> "__init__", arg |-> <<>>]
    /\ exc = "none"
    /\ ret = [__init__ |-> "None"]
    /\ nops = 0

\* The step of the loops of lines 698-719 for a pair (ivertex, iadj_v)
\* joined by an edge of the only face.
Call_boundary_edge ==
    /\ Callable
    /\ \E ivertex \in Range(faces[1]) : \E iadj_v \in Range(faces[1]) :
          /\ {ivertex, iadj_v} \in FaceEdges(faces[1])
          /\ Apply("boundary_edge", <<ivertex, iadj_v>>,
                   [vertices |-> vertices, faces |-> faces, internals |-> internals,
                    exc |-> BoundaryEdge(faces[1], ivertex, iadj_v).exc,
                    ret |-> BoundaryEdge(faces[1], ivertex, iadj_v)])

NextEdges == Call_boundary_edge

SpecEdges == InitEdges /\ [][NextEdges]_vars

\* C25: the edge recorded for a boundary edge {u, v} of a triangle or a
\* quadrangle runs against the storage order of the face, the edge
\* between the last and the first vertex included; it is the same whether
\* u or v is processed first; for the face with reversed winding it is the
\* reverse.
C25_BoundaryEdgeDirectionFollowsWinding ==
    last.op = "boundary_edge" =>
        LET F == faces[1]
            u == last.arg[1]
            v == last.arg[2]
        IN  /\ exc = "none"
            /\ <<Returned.i_v_target, Returned.i_v_orig>> \in DirectedEdges(F)
            /\ BoundaryEdge(F, v, u) = Returned
            /\ BoundaryEdge(Reverse(F), u, v) =
                  [exc |-> "none", i_v_orig |-> Returned.i_v_target,
                   i_v_target |-> Returned.i_v_orig]

\* The edge between the last and the first vertex of a quadrangle was
\* recorded.
C25_Witness ==
    /\ last.op = "boundary_edge"
    /\ faces[1][1] # faces[1][4]
    /\ last.arg = <<faces[1][4], faces[1][1]>>
    /\ Returned.i_v_orig = faces[1][1]


-----------------------------------------------------------------------------
(* Rotations and translations of a mesh with a filled cache.               *)

\* Meshes in the plane z = 0.  The one cross product that is zero, that
\* of the half (0, 0, 1) of the face (0, 0, 1, 2) of MisEncoded (lines
\* 322-323), is so by the repeated vertex.
InitRigid == InitWith({QuadTri, MisEncoded, Triangle})

NextRigid ==
    \/ Call_triangles_ids
    \/ Call_faces_areas
    \/ Call_get_surface_integrals
    \/ Call_vv
    \/ Call_rotate
    \/ Call_rotate_x
    \/ Call_rotate_y
    \/ Call_rotate_z
    \/ Call_translate_x
    \/ Call_translate_y
    \/ Call_translate_z
    \/ Call_translate

SpecRigid == InitRigid /\ [][NextRigid]_vars

RotationCalls == {"rotate", "rotate_x", "rotate_y", "rotate_z"}

RigidCalls == RotationCalls \cup {"translate_x", "translate_y", "translate_z", "translate"}

\* The three angles of the last call, a rotation.
LastAngles ==
    CASE last.op = "rotate" -> last.arg
      [] last.op = "rotate_x" -> <<last.arg, 0, 0>>
      [] last.op = "rotate_y" -> <<0, last.arg, 0>>
      [] last.op = "rotate_z" -> <<0, 0, last.arg>>

\* Where the last call, a rotation or a translation, takes the point c.
MovedPoint(c) ==
    CASE last.op \in RotationCalls ->
            IF VNorm(LastAngles) = 0 THEN c ELSE QMatVec(RotMatrix(LastAngles), c)
      [] last.op = "translate_x" -> QVAdd(c, QVec(<<last.arg, 0, 0>>))
      [] last.op = "translate_y" -> QVAdd(c, QVec(<<0, last.arg, 0>>))
      [] last.op = "translate_z" -> QVAdd(c, QVec(<<0, 0, last.arg>>))
      [] last.op = "translate" -> QVAdd(c, QVec(last.arg))

\* Where the last call takes the direction n.
MovedDirection(n) ==
    IF last.op \in RotationCalls /\ VNorm(LastAngles) # 0
    THEN QMatVec(RotMatrix(LastAngles), n) ELSE n

\* C26: after rotate (or rotate_x, rotate_y, rotate_z, which call it),
\* translate_x, translate_y, translate_z or translate on a mesh whose
\* cache holds face geometry, the cache still holds it, with the same
\* areas, the centers moved as the vertices were and the normals rotated
\* by a rotation and unchanged by a translation; it holds no surface
\* integrals; the classification and the connectivity it held are in it
\* unchanged.
C26_RigidMotionKeepsFaceGeometry ==
    (/\ last.op \in RigidCalls
     /\ exc = "none"
     /\ "faces_areas" \in DOMAIN before.internals)
    => /\ {"faces_areas", "faces_centers", "faces_normals"} \subseteq DOMAIN internals
       /\ internals["faces_areas"] = before.internals["faces_areas"]
       /\ internals["faces_centers"] =
             [i \in DOMAIN before.internals["faces_centers"] |->
                 MovedPoint(before.internals["faces_centers"][i])]
       /\ internals["faces_normals"] =
             [i \in DOMAIN before.internals["faces_normals"] |->
                 MovedDirection(before.internals["faces_normals"][i])]
       /\ "surface_integrals" \notin DOMAIN internals
       /\ \A k \in {"triangles_ids", "quadrangles_ids", "v_v", "v_f", "f_f", "boundaries"} :
             k \in DOMAIN before.internals
                 => k \in DOMAIN internals /\ internals[k] = before.internals[k]


-----------------------------------------------------------------------------
(* The cache and the arrays a mutating call leaves.                        *)

MutatingCalls ==
    {"heal_normals", "heal_triangles", "triangulate_quadrangles",
     "remove_degenerated_faces", "merge_duplicates", "remove_unused_vertices",
     "flip_normals", "scale", "scalex", "scaley", "scalez", "rotate",
     "translate_x", "translate_y", "translate_z", "translate", "mirror",
     "symmetrize"}

\* The last call, one of MutatingCalls, made on the mesh m.
SameCall(m) ==
    CASE last.op = "heal_normals" -> heal_normals(m)
      [] last.op = "heal_triangles" -> heal_triangles(m)
      [] last.op = "triangulate_quadrangles" -> triangulate_quadrangles(m)
      [] last.op = "remove_degenerated_faces" -> remove_degenerated_faces(m)
      [] last.op = "merge_duplicates" -> merge_duplicates(m)
      [] last.op = "remove_unused_vertices" -> remove_unused_vertices(m)
      [] last.op = "flip_normals" -> flip_normals(m)
      [] last.op = "scale" -> scale(m, last.arg)
      [] last.op = "scalex" -> scalex(m, last.arg)
      [] last.op = "scaley" -> scaley(m, last.arg)
      [] last.op = "scalez" -> scalez(m, last.arg)
      [] last.op = "rotate" -> rotate(m, last.arg)
      [] last.op = "translate_x" -> translate_x(m, last.arg)
      [] last.op = "translate_y" -> translate_y(m, last.arg)
      [] last.op = "translate_z" -> translate_z(m, last.arg)
      [] last.op = "translate" -> translate(m, last.arg)
      [] last.op = "mirror" -> mirror(m, last.arg)
      [] last.op = "symmetrize" -> symmetrize(m, last.arg)

\* C27: a mutating call made on a mesh with whatever the cache held and
\* the same call made on a mesh with the same vertex and face arrays and
\* an empty cache either both fail or leave equal vertex and face arrays.
C27_CacheDoesNotInfluenceArrays ==
    last.op \in MutatingCalls =>
        LET other == SameCall(Mesh(before.vertices, before.faces))
        IN  \/ exc # "none" /\ other.exc # "none"
            \/ /\ exc = "none"
               /\ other.exc = "none"
               /\ vertices = other.vertices
               /\ faces = other.faces


-----------------------------------------------------------------------------
(* heal_mesh and its five steps.                                           *)

\* Mesh(m.vertices, m.faces) when the call that left m returned.
Rebuilt(m) == IF m.exc # "none" THEN m ELSE Mesh(m.vertices, m.faces)

\* The five steps one after another, each on a mesh built anew from the
\* arrays the step before left.
FiveSteps(m) ==
    Then(Rebuilt(Then(Rebuilt(Then(Rebuilt(Then(Rebuilt(
        remove_unused_vertices(Rebuilt(m))),
        remove_degenerated_faces)), merge_duplicates)), heal_triangles)),
        heal_normals)

\* C28: heal_mesh on a mesh with at most two faces on each edge returns,
\* and leaves the vertex and face arrays that unused-vertex removal,
\* degenerate-face removal, duplicate merging, triangle healing and
\* normal healing leave when each runs on a mesh freshly built from the
\* arrays of the step before.
C28_HealMeshEqualsFiveFreshSteps ==
    (last.op = "heal_mesh" /\ EdgeManifold(before.faces)) =>
        /\ exc = "none"
        /\ FiveSteps(Before).exc = "none"
        /\ vertices = FiveSteps(Before).vertices
        /\ faces = FiveSteps(Before).faces


-----------------------------------------------------------------------------
(* Triangle healing on every way of filling the four slots of a face.      *)

\* MaxVertex + 2 vertices on a line, and one face with any indices among
\* them in its four slots.
LineVertices == [i \in 1..(MaxVertex + 2) |-> <<i - 1, 0, 0>>]

AnyFaces == [1..4 -> 0..(MaxVertex + 1)]

InitEncoding == \E f \in AnyFaces : InitWith({Mesh(LineVertices, <<f>>)})

NextEncoding ==
    \/ Call_triangles_ids
    \/ Call_quadrangles_ids
    \/ Call_flip_normals
    \/ Call_heal_triangles

SpecEncoding == InitEncoding /\ [][NextEncoding]_vars

\* The face f holds the vertices of b in the same cyclic order.
SameCyclicOrder(b, f) == \E k \in 0..3 : f = RollLeft(b, k)

\* Exactly three distinct indices, the repeated one in two slots that
\* follow each other cyclically.
AdjacentRepeat(b) ==
    /\ Cardinality(Range(b)) = 3
    /\ \E k \in 1..4 : b[k] = b[(k % 4) + 1]

\* C29: heal_triangles returns with the vertex array and the number of
\* faces unchanged and every face in the same cyclic order as before; a
\* face with three distinct indices and the repeated one in adjacent slots
\* ends with face[0] == face[3]; a face with four distinct indices stays a
\* quadrangle; a face that had face[0] == face[3] is unchanged.
C29_HealTrianglesCanonicalForm ==
    last.op = "heal_triangles" =>
        /\ exc = "none"
        /\ vertices = before.vertices
        /\ Len(faces) = Len(before.faces)
        /\ \A i \in DOMAIN faces :
              /\ SameCyclicOrder(before.faces[i], faces[i])
              /\ AdjacentRepeat(before.faces[i]) => faces[i][1] = faces[i][4]
              /\ Cardinality(Range(before.faces[i])) = 4 => faces[i][1] # faces[i][4]
              /\ before.faces[i][1] = before.faces[i][4] => faces[i] = before.faces[i]

\* A face with its repeated index in the first two slots was brought to
\* the form face[0] == face[3].
C29_Witness ==
    /\ last.op = "heal_triangles"
    /\ AdjacentRepeat(before.faces[1])
    /\ before.faces[1][1] = before.faces[1][2]
    /\ faces[1][1] = faces[1][4]
    /\ faces[1] # before.faces[1]


-----------------------------------------------------------------------------
(* Vertex indices of the faces under the calls that change the arrays.     *)

\* The vertices of the meshes of this section are the origin and points
\* with |x| = |y| = 3, 5 or 6.  A quarter turn about Oz computes
\* 6.1e-17 * x - y and x + 6.1e-17 * y (line 1023): with |x| = |y| the
\* small term is less than half the spacing of the floats at the large
\* one (1.8e-16 against 2.2e-16 at 3, 3.1e-16 against 4.4e-16 at 5) and
\* the sum rounds to -y and to x; at the origin both terms are zero.  The
\* coordinates of the code are then the integers of the model, and they
\* stay so under scale(2), the mirror in x = 0, translate_z and further
\* turns.

\* A quadrangle and a triangle sharing an edge.
DiagQuadTri ==
    Mesh(<<<<3, 3, 0>>, <<-3, 3, 0>>, <<-3, -3, 0>>, <<3, -3, 0>>, <<6, 6, 0>>>>,
         <<<<0, 1, 2, 3>>, <<0, 3, 4, 0>>>>)

\* A triangle written with its repeated vertex in the first two slots, and
\* a well-formed one; vertex 4 duplicates vertex 1.
DiagMisEncoded ==
    Mesh(<<<<0, 0, 0>>, <<3, 3, 0>>, <<-3, 3, 0>>, <<6, 6, 0>>, <<3, 3, 0>>>>,
         <<<<0, 0, 1, 2>>, <<4, 2, 3, 4>>>>)

\* A triangle on the vertices 1, 2, 3; vertex 0 is used by no face.
Sparse ==
    Mesh(<<<<5, 5, 0>>, <<0, 0, 0>>, <<3, 3, 0>>, <<-3, 3, 0>>>>,
         <<<<1, 2, 3, 1>>>>)

\* A triangle, a face of zero area with a repeated vertex, and a vertex
\* that no face uses.
Collapsed ==
    Mesh(<<<<0, 0, 0>>, <<3, 3, 0>>, <<-3, 3, 0>>, <<6, 6, 0>>, <<5, 5, 0>>>>,
         <<<<0, 1, 2, 0>>, <<1, 3, 3, 1>>>>)

InitBounds == InitWith({DiagQuadTri, DiagMisEncoded, Sparse, Collapsed})

\* The calls that change the arrays or return another mesh, and three
\* reads that fill the cache.  The rotations are about Oz, the translation
\* along it.
NextBounds ==
    \/ Call_triangles_ids
    \/ Call_faces_areas
    \/ Call_vv
    \/ Call_merge_duplicates
    \/ Call_remove_unused_vertices
    \/ Call_remove_degenerated_faces
    \/ Call_heal_triangles
    \/ Call_heal_normals
    \/ Call_flip_normals
    \/ Call_triangulate_quadrangles
    \/ Call_symmetrize
    \/ Call_mirror
    \/ Call_scale
    \/ Call_rotate
    \/ Call_rotate_z
    \/ Call_translate_z
    \/ Call_extract_faces
    \/ Call___add__

SpecBounds == InitBounds /\ [][NextBounds]_vars

=============================================================================
